---- MODULE Spec2Model ----
(***************************************************************************)
(* The numeric tower of STklos (src/src/number.c): tagged numeric values,  *)
(* the coercion step, the rational simplifier, the arithmetic core, the    *)
(* number parser and the number printer.                                   *)
(*                                                                         *)
(* A C `long` is modelled with WordBits bits; a SmallInteger (fixnum) is a *)
(* long that loses TagBits bits to the type tag.  A BigInteger (GMP mpz)   *)
(* is an unbounded integer held in a heap cell.  An error raised with      *)
(* STk_error is a non-local exit: it is modelled as the value              *)
(* [t |-> "error", kind |-> k], which every operation passes through.      *)
(***************************************************************************)
EXTENDS Integers, Sequences, FiniteSets, TLC

VARIABLES
    x,               \* first operand register (a Scheme value)
    y,               \* second operand register (a Scheme value)
    op,              \* name of the last primitive that was called
    res,             \* value it returned, or the error it signalled
    input,           \* character buffer handed to the parser (before the call)
    buf,             \* the same buffer when the parser has returned
    radix,           \* base handed to the parser / the printer
    use_srfi_169,    \* static int use_srfi_169
    real_precision,  \* static int real_precision
    ovf              \* what this build yields for an overflowed signed product

vars == <<x, y, op, res, input, buf, radix, use_srfi_169, real_precision, ovf>>

(***************************************************************************)
(* Bounds of the model.                                                    *)
(***************************************************************************)
WordBits == 8        \* width of a C long in the model
MantBits == 4        \* width of the significand of a double in the model
MaxFeed  == 6        \* largest magnitude of a result that is used again as an operand

TagBits == 2

(***************************************************************************)
(* Integer helpers.                                                        *)
(***************************************************************************)
RECURSIVE Pow(_, _)
Pow(b, n) == IF n = 0 THEN 1 ELSE b * Pow(b, n - 1)

Abs(n) == IF n < 0 THEN -n ELSE n

Sgn(n) == IF n < 0 THEN -1 ELSE IF n = 0 THEN 0 ELSE 1

\* C division of longs and mpz_tdiv_q: the quotient is truncated toward zero
TDiv(a, b) == Sgn(a) * Sgn(b) * (Abs(a) \div Abs(b))

\* C remainder of longs and the remainder of mpz_tdiv_qr: it has the sign of a
TRem(a, b) == a - b * TDiv(a, b)

RECURSIVE Gcd(_, _)
Gcd(a, b) == IF b = 0 THEN Abs(a) ELSE Gcd(b, Abs(a) % Abs(b))

LONG_MIN == -Pow(2, WordBits - 1)
LONG_MAX == Pow(2, WordBits - 1) - 1

\* a value of type long: two's complement on WordBits bits
WrapLong(n) == ((n - LONG_MIN) % Pow(2, WordBits)) + LONG_MIN

INT_MIN_VAL == -Pow(2, WordBits - TagBits - 1)
INT_MAX_VAL == Pow(2, WordBits - TagBits - 1) - 1

(***************************************************************************)
(* Values.                                                                 *)
(***************************************************************************)
STk_false == [t |-> "false"]

STk_true == [t |-> "true"]

MAKE_BOOLEAN(c) == IF c THEN STk_true ELSE STk_false

Error(k) == [t |-> "error", kind |-> k]

IsErr(v) == v.t = "error"

\* INT_VAL(MAKE_INT(n)): the tag takes the TagBits high bits of the long away
MAKE_INT(n) ==
    [t |-> "integer",
     v |-> ((n - INT_MIN_VAL) % Pow(2, WordBits - TagBits)) + INT_MIN_VAL]

INT_VAL(p) == p.v

INTP(p) == p.t = "integer"
BIGNUMP(p) == p.t = "bignum"
RATIONALP(p) == p.t = "rational"
REALP(p) == p.t = "real"
COMPLEXP(p) == p.t = "complex"

TYPEOF(n) == n.t

NUMBERP(p) == p.t \in {"integer", "bignum", "rational", "real", "complex"}

BIGNUM_FITS_INTEGER(n) == INT_MIN_VAL <= n /\ n <= INT_MAX_VAL

LONG_FITS_INTEGER(l) == INT_MIN_VAL <= l /\ l <= INT_MAX_VAL

Cmake_complex(r, i) == [t |-> "complex", re |-> r, im |-> i]

Cmake_rational(n, d) == [t |-> "rational", num |-> n, den |-> d]

long2scheme_bignum_abs(l) == [t |-> "bignum", v |-> Abs(l)]

long2scheme_bignum(l) == [t |-> "bignum", v |-> l]

long2integer(l) ==
    IF INT_MIN_VAL <= l /\ l <= INT_MAX_VAL THEN MAKE_INT(l) ELSE long2scheme_bignum(l)

bignum2scheme_bignum(n) == [t |-> "bignum", v |-> n]

bignum2integer(n) == MAKE_INT(n)

bignum2number(n) ==
    IF BIGNUM_FITS_INTEGER(n) THEN bignum2integer(n) ELSE bignum2scheme_bignum(n)

\* `a == b` on two SCM words: fixnums are immediate and compare by value; a
\* heap cell is equal to itself only, and every cell compared in this file
\* against another one was freshly allocated by the callee
EqPtr(a, b) == INTP(a) /\ INTP(b) /\ INT_VAL(a) = INT_VAL(b)

(***************************************************************************)
(* Doubles.  A double is NaN, an infinity or sign * m * 2^e, where the     *)
(* significand m has at most MantBits bits (kept odd, or 0 for a zero);    *)
(* s is the sign bit.  Every operation rounds the exact result to the      *)
(* nearest double, ties to even (IEEE-754 default rounding).  The exponent *)
(* range of a double is not reached by the magnitudes of the model.        *)
(***************************************************************************)
DFin(s, m, e) == [c |-> "fin", s |-> s, m |-> m, e |-> e]

DInf(s) == [c |-> "inf", s |-> s, m |-> 0, e |-> 0]

DNaN(s) == [c |-> "nan", s |-> s, m |-> 0, e |-> 0]

DZero(s) == DFin(s, 0, 0)

RECURSIVE DNorm(_, _, _)
DNorm(s, m, e) ==
    IF m = 0 THEN DZero(s)
    ELSE IF m % 2 = 0 THEN DNorm(s, m \div 2, e + 1)
    ELSE DFin(s, m, e)

\* num / den (num > 0, den > 0) scaled by a power of two into [2^(P-1), 2^P)
RECURSIVE DScale(_, _, _)
DScale(num, den, k) ==
    IF num \div Pow(2, MantBits) >= den
    THEN (IF num % 2 = 0 THEN DScale(num \div 2, den, k + 1) ELSE DScale(num, 2 * den, k + 1))
    ELSE IF num \div Pow(2, MantBits - 1) < den
    THEN (IF den % 2 = 0 THEN DScale(num, den \div 2, k - 1) ELSE DScale(2 * num, den, k - 1))
    ELSE <<num, den, k>>

\* the double nearest to (-1)^s * num / den, ties to even
DRoundScaled(s, sc) ==
    LET q  == sc[1] \div sc[2]
        r  == sc[1] % sc[2]
        up == 2 * r > sc[2] \/ (2 * r = sc[2] /\ q % 2 = 1)
    IN  DNorm(s, IF up THEN q + 1 ELSE q, sc[3])

DRound(s, num, den) ==
    IF num = 0 THEN DZero(s)
    ELSE DRoundScaled(s, DScale(num \div Gcd(num, den), den \div Gcd(num, den), 0))

\* the double of largest magnitude not beyond (-1)^s * num / den (mpz_get_d)
DTruncScaled(s, sc) == DNorm(s, sc[1] \div sc[2], sc[3])

DTrunc(s, num, den) ==
    IF num = 0 THEN DZero(s)
    ELSE DTruncScaled(s, DScale(num \div Gcd(num, den), den \div Gcd(num, den), 0))

DSignBit(n) == IF n < 0 THEN 1 ELSE 0

\* (double) l for a long l, and atof of the decimal digits of an integer
DOfInt(n) == DRound(DSignBit(n), Abs(n), 1)

\* a finite double as the fraction <<numerator, denominator>>, sign included
DNum(d) == (IF d.s = 1 THEN -1 ELSE 1) * d.m * (IF d.e >= 0 THEN Pow(2, d.e) ELSE 1)
DDen(d) == IF d.e >= 0 THEN 1 ELSE Pow(2, -d.e)

DIsZero(d) == d.c = "fin" /\ d.m = 0
DIsNaN(d) == d.c = "nan"
DIsInf(d) == d.c = "inf"
DIsFinite(d) == d.c = "fin"

DNeg(d) == [d EXCEPT !.s = 1 - d.s]

\* a + b on doubles
DAdd(a, b) ==
    IF DIsNaN(a) THEN a
    ELSE IF DIsNaN(b) THEN b
    ELSE IF DIsInf(a) THEN (IF DIsInf(b) /\ a.s # b.s THEN DNaN(1) ELSE a)
    ELSE IF DIsInf(b) THEN b
    ELSE LET n == DNum(a) * DDen(b) + DNum(b) * DDen(a)
             d == DDen(a) * DDen(b)
         IN  IF n = 0
             THEN DZero(IF a.s = 1 /\ b.s = 1 THEN 1 ELSE 0)
             ELSE DRound(DSignBit(n), Abs(n), d)

DSub(a, b) == IF DIsNaN(b) THEN (IF DIsNaN(a) THEN a ELSE b) ELSE DAdd(a, DNeg(b))

DXor(a, b) == IF a.s = b.s THEN 0 ELSE 1

\* a * b on doubles
DMul(a, b) ==
    IF DIsNaN(a) THEN a
    ELSE IF DIsNaN(b) THEN b
    ELSE IF DIsInf(a) \/ DIsInf(b)
         THEN (IF DIsZero(a) \/ DIsZero(b) THEN DNaN(1) ELSE DInf(DXor(a, b)))
    ELSE DRound(DXor(a, b), Abs(DNum(a)) * Abs(DNum(b)), DDen(a) * DDen(b))

\* a / b on doubles: a zero divisor gives an infinity or a NaN, never a trap
DDiv(a, b) ==
    IF DIsNaN(a) THEN a
    ELSE IF DIsNaN(b) THEN b
    ELSE IF DIsInf(a) THEN (IF DIsInf(b) THEN DNaN(1) ELSE DInf(DXor(a, b)))
    ELSE IF DIsInf(b) THEN DZero(DXor(a, b))
    ELSE IF DIsZero(b) THEN (IF DIsZero(a) THEN DNaN(1) ELSE DInf(DXor(a, b)))
    ELSE DRound(DXor(a, b), Abs(DNum(a)) * DDen(b), DDen(a) * Abs(DNum(b)))

\* a < b and a == b on doubles (false when either is a NaN)
DLess(a, b) ==
    /\ ~DIsNaN(a) /\ ~DIsNaN(b)
    /\ IF DIsInf(a) THEN a.s = 1 /\ ~(DIsInf(b) /\ b.s = 1)
       ELSE IF DIsInf(b) THEN b.s = 0
       ELSE DNum(a) * DDen(b) < DNum(b) * DDen(a)

DEq(a, b) ==
    /\ ~DIsNaN(a) /\ ~DIsNaN(b)
    /\ IF DIsInf(a) \/ DIsInf(b) THEN a.c = b.c /\ a.s = b.s
       ELSE DNum(a) * DDen(b) = DNum(b) * DDen(a)

double2real(d) == [t |-> "real", d |-> d]

REAL_VAL(p) == p.d

(***************************************************************************)
(* Predicates on numbers.                                                  *)
(***************************************************************************)
RECURSIVE zerop(_)
zerop(n) ==
    CASE INTP(n)      -> INT_VAL(n) = 0
      [] REALP(n)     -> DIsZero(REAL_VAL(n))
      [] BIGNUMP(n)   -> n.v = 0
      [] COMPLEXP(n)  -> zerop(n.re) /\ zerop(n.im)
      [] RATIONALP(n) -> zerop(n.num)
      [] OTHER        -> FALSE

RECURSIVE positivep(_)
positivep(n) ==
    CASE INTP(n)      -> INT_VAL(n) > 0
      [] REALP(n)     -> DLess(DZero(0), REAL_VAL(n))
      [] BIGNUMP(n)   -> n.v > 0
      [] RATIONALP(n) -> positivep(n.num)
      [] OTHER        -> FALSE

RECURSIVE negativep(_)
negativep(n) ==
    CASE INTP(n)      -> INT_VAL(n) < 0
      [] REALP(n)     -> DLess(REAL_VAL(n), DZero(0))
      [] BIGNUMP(n)   -> n.v < 0
      [] RATIONALP(n) -> negativep(n.num)
      [] OTHER        -> FALSE

RECURSIVE isexactp(_)
isexactp(z) ==
    CASE COMPLEXP(z) -> isexactp(z.re) /\ isexactp(z.im)
      [] REALP(z)    -> FALSE
      [] OTHER       -> TRUE

\* the checks of zerop, positivep and negativep that end in an error
zerop_err(n) == ~NUMBERP(n)

signp_err(n) == ~(INTP(n) \/ REALP(n) \/ BIGNUMP(n) \/ RATIONALP(n))

make_complex(r, i) ==
    IF IsErr(r) THEN r
    ELSE IF IsErr(i) THEN i
    ELSE IF zerop_err(i) THEN Error("bad-number")
    ELSE IF zerop(i) THEN r ELSE Cmake_complex(r, i)

(***************************************************************************)
(* Conversions to double.                                                  *)
(***************************************************************************)
\* mpz_sizeinbase(n, 2): the number of bits of |n| (1 for 0)
RECURSIVE SizeInBase2(_)
SizeInBase2(n) == IF Abs(n) < 2 THEN 1 ELSE 1 + SizeInBase2(Abs(n) \div 2)

scheme_bignum2double(b) == DOfInt(b.v)

scheme_bignum2real(bn) == double2real(scheme_bignum2double(bn))

bigrational2double(num, den) ==
    LET ne  == SizeInBase2(num)
        de  == SizeInBase2(den)
        ee0 == WordBits
        ee  == IF de = 1 \/ ne > de + ee0 THEN 0
               ELSE ((ee0 + de - ne) \div WordBits) + 1
        z   == TDiv(num * Pow(2, ee * WordBits), den)
    IN  DTrunc(DSignBit(z), Abs(z), Pow(2, ee * WordBits))

rational2double(r) ==
    IF INTP(r.num) /\ INTP(r.den)
    THEN DDiv(DOfInt(INT_VAL(r.num)), DOfInt(INT_VAL(r.den)))
    ELSE bigrational2double(r.num.v, r.den.v)

rational2real(r) == double2real(rational2double(r))

(***************************************************************************)
(* The general conversion routine.  The result is the common type tag and  *)
(* the two operands as convert leaves them, or the error it signals.       *)
(***************************************************************************)
Converted(px, py) == [tc |-> TYPEOF(px), x |-> px, y |-> py]

convert(px, py) ==
    IF TYPEOF(px) = TYPEOF(py) THEN Converted(px, py)
    ELSE CASE COMPLEXP(px) ->
                IF NUMBERP(py) THEN Converted(px, Cmake_complex(py, MAKE_INT(0)))
                ELSE [tc |-> "error", x |-> px, y |-> py]
           [] REALP(px) ->
                CASE COMPLEXP(py)  -> Converted(Cmake_complex(px, MAKE_INT(0)), py)
                  [] RATIONALP(py) -> Converted(px, rational2real(py))
                  [] BIGNUMP(py)   -> Converted(px, scheme_bignum2real(py))
                  [] INTP(py)      -> Converted(px, double2real(DOfInt(INT_VAL(py))))
                  [] OTHER         -> [tc |-> "error", x |-> px, y |-> py]
           [] RATIONALP(px) ->
                CASE COMPLEXP(py)  -> Converted(Cmake_complex(px, MAKE_INT(0)), py)
                  [] REALP(py)     -> Converted(rational2real(px), py)
                  [] BIGNUMP(py)   -> Converted(px, Cmake_rational(py, MAKE_INT(1)))
                  [] INTP(py)      -> Converted(px, Cmake_rational(py, MAKE_INT(1)))
                  [] OTHER         -> [tc |-> "error", x |-> px, y |-> py]
           [] BIGNUMP(px) ->
                CASE COMPLEXP(py)  -> Converted(Cmake_complex(px, MAKE_INT(0)), py)
                  [] REALP(py)     -> Converted(scheme_bignum2real(px), py)
                  [] RATIONALP(py) -> Converted(Cmake_rational(px, MAKE_INT(1)), py)
                  [] INTP(py)      -> Converted(px, long2scheme_bignum(INT_VAL(py)))
                  [] OTHER         -> [tc |-> "error", x |-> px, y |-> py]
           [] INTP(px) ->
                CASE COMPLEXP(py)  -> Converted(Cmake_complex(px, MAKE_INT(0)), py)
                  [] REALP(py)     -> Converted(double2real(DOfInt(INT_VAL(px))), py)
                  [] RATIONALP(py) -> Converted(Cmake_rational(px, MAKE_INT(1)), py)
                  [] BIGNUMP(py)   -> Converted(long2scheme_bignum(INT_VAL(px)), py)
                  [] OTHER         -> [tc |-> "error", x |-> px, y |-> py]
           [] OTHER -> [tc |-> "error", x |-> px, y |-> py]

(***************************************************************************)
(* The arithmetic core.                                                    *)
(***************************************************************************)
\* what the build yields for an overflowed product of two longs (undefined in C)
OvfOutcomes == {"wrap", "max", "zero"}

\* i1 * i2 on longs
LongMul(i1, i2) ==
    IF LONG_MIN <= i1 * i2 /\ i1 * i2 <= LONG_MAX THEN i1 * i2
    ELSE CASE ovf = "wrap" -> WrapLong(i1 * i2)
           [] ovf = "max"  -> LONG_MAX
           [] OTHER        -> 0

int_quotient(a, b) ==
    IF IsErr(a) THEN a
    ELSE IF IsErr(b) THEN b
    ELSE IF INTP(a) /\ INTP(b) THEN MAKE_INT(TDiv(INT_VAL(a), INT_VAL(b)))
    ELSE bignum2number(TDiv(a.v, b.v))

\* a gcd that is always 1
gcd2_fixnum_one(n1, n2) == MAKE_INT(1)

gcd2_fixnum(n1, n2) ==
    LET l1 == IF INT_VAL(n1) < 0 THEN WrapLong(-INT_VAL(n1)) ELSE INT_VAL(n1)
        l2 == IF INT_VAL(n2) < 0 THEN WrapLong(-INT_VAL(n2)) ELSE INT_VAL(n2)
    IN  MAKE_INT(Gcd(l1, l2))

STk_integerp(v) ==
    CASE REALP(v) -> DIsFinite(REAL_VAL(v)) /\ REAL_VAL(v).e >= 0
      [] BIGNUMP(v) -> TRUE
      [] INTP(v)    -> TRUE
      [] OTHER      -> FALSE

\* Every call between the mutually recursive routines below goes through
\* call(f, a, b), which applies the routine named f (to a alone when it takes
\* one argument).
RECURSIVE call(_, _, _)
RECURSIVE pcall(_, _, _)
RECURSIVE exact2inexact(_)

double2integer(d) ==
    IF ~DLess(d, DOfInt(INT_MIN_VAL)) /\ ~DLess(DOfInt(INT_MAX_VAL), d)
    THEN MAKE_INT(WrapLong(TDiv(DNum(d), DDen(d))))
    ELSE bignum2number(TDiv(DNum(d), DDen(d)))

\* the loop of double2rational: fn / fd is the fraction still to be converted
RECURSIVE double2rational_loop(_, _, _, _)
double2rational_loop(num, den, fn, fd) ==
    IF fn = 0 THEN <<num, den>>
    ELSE IF 2 * fn >= fd
         THEN double2rational_loop(call("add2", call("mul2", num, MAKE_INT(2)), MAKE_INT(1)),
                                   call("mul2", den, MAKE_INT(2)), 2 * fn - fd, fd)
    ELSE double2rational_loop(call("mul2", num, MAKE_INT(2)),
                              call("mul2", den, MAKE_INT(2)), 2 * fn, fd)

\* the integral part plus the fraction nd = <<numerator, denominator>>
double2rational_sum(int_part, nd) ==
    call("add2", int_part, call("div2", nd[1], nd[2]))

\* double2rational of a double d that is not negative
double2rational_abs(d) ==
    LET ip == TDiv(DNum(d), DDen(d))
        fn == DNum(d) - ip * DDen(d)
    IN  IF fn = 0 THEN double2integer(DRound(0, ip, 1))
        ELSE double2rational_sum(double2integer(DRound(0, ip, 1)),
                                 double2rational_loop(MAKE_INT(0), MAKE_INT(1), fn, DDen(d)))

double2rational(d) ==
    IF DLess(d, DZero(0))
    THEN call("mul2", double2rational_abs(DNeg(d)), MAKE_INT(-1))
    ELSE double2rational_abs(d)

inexact2exact(z) ==
    CASE IsErr(z) -> z
      [] COMPLEXP(z) ->
            IF REALP(z.re) \/ REALP(z.im)
            THEN LET r == call("inexact2exact", z.re, z.re)
                     i == call("inexact2exact", z.im, z.im)
                 IN  IF IsErr(r) THEN r ELSE IF IsErr(i) THEN i ELSE Cmake_complex(r, i)
            ELSE z
      [] REALP(z) ->
            IF DIsInf(REAL_VAL(z)) \/ DIsNaN(REAL_VAL(z)) THEN Error("not-finite")
            ELSE double2rational(REAL_VAL(z))
      [] RATIONALP(z) \/ BIGNUMP(z) \/ INTP(z) -> z
      [] OTHER -> Error("bad-number")

exact2inexact(z) ==
    CASE IsErr(z) -> z
      [] COMPLEXP(z) ->
            IF REALP(z.re) /\ REALP(z.im) THEN z
            ELSE LET r == exact2inexact(z.re)
                     i == exact2inexact(z.im)
                 IN  IF IsErr(r) THEN r ELSE IF IsErr(i) THEN i ELSE Cmake_complex(r, i)
      [] REALP(z)     -> z
      [] RATIONALP(z) -> rational2real(z)
      [] BIGNUMP(z)   -> scheme_bignum2real(z)
      [] INTP(z)      -> double2real(DOfInt(INT_VAL(z)))
      [] OTHER        -> Error("bad-number")

\* gcd2 once its operands n1 and n2 have been made exact
gcd2_exact(n1, n2, exactp) ==
    IF IsErr(n1) THEN n1
    ELSE IF IsErr(n2) THEN n2
    ELSE IF INTP(n1) /\ INTP(n2)
         THEN (IF exactp THEN gcd2_fixnum(n1, n2)
               ELSE exact2inexact(gcd2_fixnum(n1, n2)))
    ELSE LET r == IF BIGNUMP(n1) /\ INTP(n2) THEN Gcd(n1.v, Abs(INT_VAL(n2)))
                  ELSE IF INTP(n1) /\ BIGNUMP(n2) THEN Gcd(n2.v, Abs(INT_VAL(n1)))
                  ELSE IF BIGNUMP(n1) /\ BIGNUMP(n2) THEN Gcd(n1.v, n2.v)
                  ELSE 0
         IN  IF exactp THEN bignum2number(r) ELSE double2real(DOfInt(r))

gcd2(a, b) ==
    IF IsErr(a) THEN a
    ELSE IF IsErr(b) THEN b
    ELSE IF ~STk_integerp(a) THEN Error("not-an-integer")
    ELSE gcd2_exact(IF REALP(a) THEN call("inexact2exact", a, a) ELSE a,
                    IF REALP(b) THEN call("inexact2exact", b, b) ELSE b,
                    ~REALP(a) /\ ~REALP(b))

\* the end of make_rational: a Rational unless the denominator is the fixnum 1
make_rational_cell(n, d) == IF EqPtr(d, MAKE_INT(1)) THEN n ELSE Cmake_rational(n, d)

\* make_rational from its test of the gcd on: n over d, d positive
make_rational_reduce(n, d, gcd) ==
    IF IsErr(n) THEN n
    ELSE IF IsErr(d) THEN d
    ELSE IF IsErr(gcd) THEN gcd
    ELSE IF ~EqPtr(gcd, MAKE_INT(1)) /\ EqPtr(d, gcd) THEN int_quotient(n, gcd)
    ELSE IF ~EqPtr(gcd, MAKE_INT(1))
         THEN make_rational_cell(int_quotient(n, gcd), int_quotient(d, gcd))
    ELSE make_rational_cell(n, d)

make_rational_gcd(n, d) == make_rational_reduce(n, d, call("gcd2", n, d))

make_rational(n, d) ==
    IF IsErr(n) THEN n
    ELSE IF IsErr(d) THEN d
    ELSE IF zerop_err(d) THEN Error("bad-number")
    ELSE IF zerop(d) THEN Error("null-denominator")
    ELSE IF signp_err(d) THEN Error("not-a-real-number")
    ELSE IF negativep(d)
         THEN make_rational_gcd(call("mul2", n, MAKE_INT(-1)), call("mul2", d, MAKE_INT(-1)))
    ELSE make_rational_gcd(n, d)

\* the switch of STk_add2 on the type convert found, c being what convert left
STk_add2_switch(c) ==
    CASE c.tc = "bignum"  -> bignum2number(c.x.v + c.y.v)
      [] c.tc = "integer" ->
           LET add == WrapLong(INT_VAL(c.x) + INT_VAL(c.y))
           IN  IF LONG_FITS_INTEGER(add) THEN MAKE_INT(add)
               ELSE long2scheme_bignum(add)
      [] c.tc = "real"    -> double2real(DAdd(REAL_VAL(c.x), REAL_VAL(c.y)))
      [] c.tc = "complex" ->
           make_complex(call("add2", c.x.re, c.y.re), call("add2", c.x.im, c.y.im))
      [] c.tc = "rational" ->
           LET den  == call("mul2", c.x.den, c.y.den)
               num1 == call("mul2", c.x.num, c.y.den)
               num2 == call("mul2", c.y.num, c.x.den)
           IN  call("make_rational", call("add2", num1, num2), den)
      [] c.tc = "error"   -> Error("bad-number")
      [] OTHER            -> Error("cannot-operate")

STk_add2(a, b) ==
    IF IsErr(a) THEN a
    ELSE IF IsErr(b) THEN b
    ELSE STk_add2_switch(convert(a, b))

\* the overflow test of the fixnum product, on the long product (not the fixnum)
mul2_overflowed_long(p, i1, i2) == i1 # 0 /\ TDiv(LongMul(i1, i2), i1) # i2

\* the overflow test of the fixnum product p of i1 and i2
mul2_overflowed(p, i1, i2) == i1 # 0 /\ TDiv(INT_VAL(p), i1) # i2

\* the switch of STk_mul2 on the type convert found, c being what convert left
STk_mul2_switch(c) ==
    CASE c.tc = "bignum"  -> bignum2number(c.x.v * c.y.v)
      [] c.tc = "integer" ->
           LET i1 == INT_VAL(c.x)
               i2 == INT_VAL(c.y)
               p  == MAKE_INT(LongMul(i1, i2))
           IN  IF mul2_overflowed(p, i1, i2)
               THEN bignum2number(i1 * i2)
               ELSE p
      [] c.tc = "real"    -> double2real(DMul(REAL_VAL(c.x), REAL_VAL(c.y)))
      [] c.tc = "complex" ->
           make_complex(call("sub2", call("mul2", c.x.re, c.y.re), call("mul2", c.x.im, c.y.im)),
                        call("add2", call("mul2", c.x.re, c.y.im), call("mul2", c.y.re, c.x.im)))
      [] c.tc = "rational" ->
           call("make_rational", call("mul2", c.x.num, c.y.num), call("mul2", c.x.den, c.y.den))
      [] c.tc = "error"   -> Error("bad-number")
      [] OTHER            -> Error("cannot-operate")

STk_mul2(a, b) ==
    IF IsErr(a) THEN a
    ELSE IF IsErr(b) THEN b
    ELSE STk_mul2_switch(convert(a, b))

\* the switch of STk_sub2 on the type convert found, c being what convert left
STk_sub2_switch(c) ==
    CASE c.tc = "bignum"  -> bignum2number(c.x.v - c.y.v)
      [] c.tc = "integer" ->
           LET sub == WrapLong(INT_VAL(c.x) - INT_VAL(c.y))
           IN  IF LONG_FITS_INTEGER(sub) THEN MAKE_INT(sub)
               ELSE long2scheme_bignum(sub)
      [] c.tc = "real"    -> double2real(DSub(REAL_VAL(c.x), REAL_VAL(c.y)))
      [] c.tc = "complex" ->
           make_complex(call("sub2", c.x.re, c.y.re), call("sub2", c.x.im, c.y.im))
      [] c.tc = "rational" ->
           LET den  == call("mul2", c.x.den, c.y.den)
               num1 == call("mul2", c.x.num, c.y.den)
               num2 == call("mul2", c.y.num, c.x.den)
           IN  call("make_rational", call("sub2", num1, num2), den)
      [] c.tc = "error"   -> Error("bad-number")
      [] OTHER            -> Error("cannot-operate")

STk_sub2(a, b) ==
    IF IsErr(a) THEN a
    ELSE IF IsErr(b) THEN b
    ELSE STk_sub2_switch(convert(a, b))

\* the switch of STk_div2 on the type convert found, c being what convert left
STk_div2_switch(c) ==
    CASE c.tc = "bignum" \/ c.tc = "integer" -> call("make_rational", c.x, c.y)
      [] c.tc = "real"    ->
           IF ~DEq(REAL_VAL(c.y), DOfInt(1))
           THEN double2real(DDiv(REAL_VAL(c.x), REAL_VAL(c.y)))
           ELSE c.x
      [] c.tc = "rational" ->
           call("make_rational", call("mul2", c.x.num, c.y.den), call("mul2", c.x.den, c.y.num))
      [] c.tc = "complex" ->
           IF ~zerop(c.x)
           THEN LET tmp   == call("add2", call("mul2", c.y.re, c.y.re), call("mul2", c.y.im, c.y.im))
                    new_r == call("div2", call("add2", call("mul2", c.x.re, c.y.re), call("mul2", c.x.im, c.y.im)), tmp)
                    new_i == call("div2", call("sub2", call("mul2", c.x.im, c.y.re), call("mul2", c.x.re, c.y.im)), tmp)
                IN  make_complex(new_r, new_i)
           ELSE c.x
      [] c.tc = "error"   -> Error("bad-number")
      [] OTHER            -> Error("cannot-operate")

STk_div2(a, b) ==
    IF IsErr(a) THEN a
    ELSE IF IsErr(b) THEN b
    ELSE STk_div2_switch(convert(a, b))

absolute(v) ==
    CASE IsErr(v)  -> v
      [] INTP(v)   -> IF INT_VAL(v) = INT_MIN_VAL THEN long2scheme_bignum(-INT_VAL(v))
                      ELSE IF INT_VAL(v) < 0 THEN MAKE_INT(-INT_VAL(v)) ELSE v
      [] BIGNUMP(v) -> IF v.v < 0 THEN bignum2scheme_bignum(-v.v) ELSE v
      [] REALP(v)  -> IF DLess(REAL_VAL(v), DZero(0)) THEN double2real(DNeg(REAL_VAL(v)))
                      ELSE v
      [] RATIONALP(v) -> call("make_rational", call("absolute", v.num, v.num), v.den)
      [] OTHER     -> Error("not-a-real-number")

(***************************************************************************)
(* Character buffers.  A C string is a sequence of characters that ends   *)
(* with NUL; a pointer into it is an index, and 0 is the NULL pointer.     *)
(***************************************************************************)
NUL == "NUL"

CStr(s) == Append(s, NUL)

CharAt(b, i) == IF 1 <= i /\ i <= Len(b) THEN b[i] ELSE NUL

Patch(b, i, c) == IF 1 <= i /\ i <= Len(b) THEN [b EXCEPT ![i] = c] ELSE b

\* the position of the NUL that ends the string starting at i
RECURSIVE StrEnd(_, _)
StrEnd(b, i) == IF CharAt(b, i) = NUL THEN i ELSE StrEnd(b, i + 1)

strlen(b, i) == StrEnd(b, i) - i

strchr(b, i, c) == \E k \in i..(StrEnd(b, i) - 1) : b[k] = c

\* the characters of the string starting at i, the NUL left out
StrFrom(b, i) == SubSeq(b, i, StrEnd(b, i) - 1)

DecDigits == <<"0", "1", "2", "3", "4", "5", "6", "7", "8", "9">>

LowerHex == <<"a", "b", "c", "d", "e", "f">>

UpperHex == <<"A", "B", "C", "D", "E", "F">>

InSeq(s, c) == \E i \in 1..Len(s) : s[i] = c

IndexOf(s, c) == CHOOSE i \in 1..Len(s) : s[i] = c

isalpha(c) ==
    c \in {"a", "b", "c", "d", "e", "f", "g", "h", "i", "j", "k", "l", "m",
           "n", "o", "p", "q", "r", "s", "t", "u", "v", "w", "x", "y", "z",
           "A", "B", "C", "D", "E", "F", "G", "H", "I", "J", "K", "L", "M",
           "N", "O", "P", "Q", "R", "S", "T", "U", "V", "W", "X", "Y", "Z"}

\* the value digitp gives a character before it compares it with the base
DigitValue(c) ==
    IF InSeq(DecDigits, c) THEN IndexOf(DecDigits, c) - 1
    ELSE IF InSeq(LowerHex, c) THEN IndexOf(LowerHex, c) + 9
    ELSE IF InSeq(UpperHex, c) THEN IndexOf(UpperHex, c) + 9
    ELSE IF c = "#" THEN 0
    ELSE 100

digitp(c, base) == DigitValue(c) < base

\* the value of the digits b[i .. j-1] in the base, most significant first
RECURSIVE DigitsValue(_, _, _, _)
DigitsValue(b, i, j, base) ==
    IF j <= i THEN 0
    ELSE DigitsValue(b, i, j - 1, base) * base + DigitValue(b[j - 1])

\* mpz_init_set_str: an optional '-', then digits of the base up to the NUL;
\* ok is FALSE (the C result is -1) for anything else, '+' and '#' included
mpz_init_set_str(b, i, base) ==
    LET e  == StrEnd(b, i)
        d0 == IF CharAt(b, i) = "-" THEN i + 1 ELSE i
    IN  IF d0 >= e \/ \E k \in d0..(e - 1) : b[k] = "#" \/ ~digitp(b[k], base)
        THEN [ok |-> FALSE, v |-> 0]
        ELSE [ok |-> TRUE,
              v  |-> (IF d0 > i THEN -1 ELSE 1) * DigitsValue(b, d0, e, base)]

\* the end of the run of decimal digits that starts at p
RECURSIVE SkipDecimal(_, _)
SkipDecimal(b, p) ==
    IF InSeq(DecDigits, CharAt(b, p)) THEN SkipDecimal(b, p + 1) ELSE p

IsSign(c) == c = "-" \/ c = "+"

\* atol and atoi: an optional sign, then decimal digits up to the first other character
atol(b, i) ==
    LET d0 == IF IsSign(CharAt(b, i)) THEN i + 1 ELSE i
    IN  (IF CharAt(b, i) = "-" THEN -1 ELSE 1) * DigitsValue(b, d0, SkipDecimal(b, d0), 10)

atoi(b, i) == atol(b, i)

\* strtod on the string starting at i: the double and the position it stops at
strtod(b, i) ==
    LET d0   == IF IsSign(CharAt(b, i)) THEN i + 1 ELSE i
        d1   == SkipDecimal(b, d0)
        f0   == IF CharAt(b, d1) = "." THEN d1 + 1 ELSE d1
        f1   == SkipDecimal(b, f0)
        e0   == IF IsSign(CharAt(b, f1 + 1)) THEN f1 + 2 ELSE f1 + 1
        e1   == SkipDecimal(b, e0)
        expo == CharAt(b, f1) \in {"e", "E"} /\ e1 > e0
        ex   == (IF expo THEN atol(b, f1 + 1) ELSE 0) - (f1 - f0)
        mant == DigitsValue(b, d0, d1, 10) * Pow(10, f1 - f0) + DigitsValue(b, f0, f1, 10)
        s    == IF CharAt(b, i) = "-" THEN 1 ELSE 0
    IN  IF (d1 - d0) + (f1 - f0) = 0 THEN [d |-> DZero(0), end |-> i]
        ELSE [d   |-> IF ex >= 0 THEN DRound(s, mant * Pow(10, ex), 1)
                      ELSE DRound(s, mant, Pow(10, -ex)),
              end |-> IF expo THEN e1 ELSE f1]

(***************************************************************************)
(* The number printer.  A C string the printer builds is the value         *)
(* [t |-> "cstr", chars |-> s], s being its characters, the NUL left out.  *)
(***************************************************************************)
Cstring(s) == [t |-> "cstr", chars |-> s]

\* the character number2Cstr writes for the digit u
DigitChar(u) == IF u < 10 THEN DecDigits[u + 1] ELSE LowerHex[u - 9]

\* the digits of val >= 0 in the base, most significant first
RECURSIVE IntDigits(_, _)
IntDigits(val, base) ==
    IF val < base THEN <<DigitChar(val)>>
    ELSE Append(IntDigits(val \div base, base), DigitChar(val % base))

mpz_get_str(base, v) == (IF v < 0 THEN <<"-">> ELSE <<>>) \o IntDigits(Abs(v), base)

\* the digits alone, the sign left out
integer2Cstr_unsigned(val, base) == IntDigits(Abs(val), base)

\* the tc_integer case of number2Cstr
integer2Cstr(val, base) ==
    IF val < 0 THEN <<"-">> \o IntDigits(-val, base) ELSE IntDigits(val, base)

Zeros(k) == [i \in 1..k |-> "0"]

\* s without its trailing zeros, one digit kept at least
RECURSIVE StripZeros(_)
StripZeros(s) ==
    IF Len(s) > 1 /\ s[Len(s)] = "0" THEN StripZeros(SubSeq(s, 1, Len(s) - 1)) ELSE s

\* n / 10^cut rounded to an integer, ties to even
RoundDecimal(n, cut) ==
    LET q == n \div Pow(10, cut)
        r == n % Pow(10, cut)
    IN  IF 2 * r > Pow(10, cut) \/ (2 * r = Pow(10, cut) /\ q % 2 = 1) THEN q + 1 ELSE q

\* the layout %g gives the significant digits sig of a number whose decimal
\* exponent is ex, for the precision p: trailing zeros and a bare point removed
LayoutG(sig, ex, p) ==
    IF ex < -4 \/ ex >= p
    THEN <<sig[1]>> \o (IF Len(sig) > 1 THEN <<".">> \o SubSeq(sig, 2, Len(sig)) ELSE <<>>)
         \o <<"e", IF ex < 0 THEN "-" ELSE "+">>
         \o (IF Abs(ex) < 10 THEN <<"0">> ELSE <<>>) \o IntDigits(Abs(ex), 10)
    ELSE IF ex < 0 THEN <<"0", ".">> \o Zeros(-ex - 1) \o sig
    ELSE IF Len(sig) <= ex + 1 THEN sig \o Zeros(ex + 1 - Len(sig))
    ELSE SubSeq(sig, 1, ex + 1) \o <<".">> \o SubSeq(sig, ex + 2, Len(sig))

\* %.*g of n / 10^k (n > 0) when n has nd digits
FormatG(n, k, nd, p) ==
    IF nd <= p THEN LayoutG(StripZeros(IntDigits(n, 10)), nd - 1 - k, p)
    ELSE IF RoundDecimal(n, nd - p) = Pow(10, p) THEN LayoutG(<<"1">>, nd - k, p)
    ELSE LayoutG(StripZeros(IntDigits(RoundDecimal(n, nd - p), 10)), nd - 1 - k, p)

\* snprintf(buffer, bufflen, "%.*g", real_precision, n)
snprintf_g(d, p) ==
    (IF d.s = 1 THEN <<"-">> ELSE <<>>) \o
    (CASE DIsNaN(d)  -> <<"n", "a", "n">>
       [] DIsInf(d)  -> <<"i", "n", "f">>
       [] DIsZero(d) -> <<"0">>
       [] OTHER      ->
            FormatG(Abs(DNum(d)) * Pow(5, IF d.e < 0 THEN -d.e ELSE 0),
                    IF d.e < 0 THEN -d.e ELSE 0,
                    Len(IntDigits(Abs(DNum(d)) * Pow(5, IF d.e < 0 THEN -d.e ELSE 0), 10)),
                    p))

\* the rest of STk_double2Cstr, on what snprintf wrote
double2Cstr_fix(s) ==
    IF ~InSeq(s, ".") /\ ~InSeq(s, "e")
    THEN (IF isalpha(s[1]) THEN <<"+">> ELSE <<>>) \o s \o <<".", "0">>
    ELSE s

STk_double2Cstr(n) == double2Cstr_fix(snprintf_g(n, real_precision))

RECURSIVE number2Cstr(_, _)

\* the tc_complex case of number2Cstr, s1 and s2 the two parts as printed
complex2Cstr(s1, s2) ==
    IF IsErr(s1) THEN s1
    ELSE IF IsErr(s2) THEN s2
    ELSE Cstring(s1.chars \o (IF s2.chars[1] = "-" THEN <<>> ELSE <<"+">>) \o s2.chars \o <<"i">>)

number2Cstr(n, base) ==
    CASE INTP(n)      -> Cstring(integer2Cstr(INT_VAL(n), base))
      [] BIGNUMP(n)   -> Cstring(mpz_get_str(base, n.v))
      [] RATIONALP(n) -> Cstring(number2Cstr(n.num, base).chars \o <<"/">>
                                 \o number2Cstr(n.den, base).chars)
      [] COMPLEXP(n)  -> complex2Cstr(number2Cstr(n.re, base), number2Cstr(n.im, base))
      [] REALP(n)     -> IF base # 10 THEN Error("base-must-be-10")
                         ELSE Cstring(STk_double2Cstr(REAL_VAL(n)))

Radixes == {2, 8, 10, 16}

STk_makestring(s) == [t |-> "string", chars |-> s]

\* the primitive number->string
number2string(n, b) ==
    IF ~NUMBERP(n) THEN Error("bad-number")
    ELSE IF b \notin Radixes THEN Error("incorrect-radix")
    ELSE IF IsErr(number2Cstr(n, b)) THEN number2Cstr(n, b)
    ELSE STk_makestring(number2Cstr(n, b).chars)

\* log10_maxint, set when the module is initialised
log10_maxint == Len(IntDigits(INT_MAX_VAL, 10)) - 1

(***************************************************************************)
(* The number parser.                                                      *)
(***************************************************************************)
\* the copy loop of remove_underscores: *q = *(q+1) for q from p up to end - 1
ShiftLeft(b, p, end) ==
    [k \in 1..Len(b) |-> IF p <= k /\ k < end THEN CharAt(b, k + 1) ELSE b[k]]

\* the scan of remove_underscores from position p on; the result is whether the
\* underscores are well placed and the buffer as the routine leaves it
RECURSIVE remove_underscores_from(_, _, _, _, _, _)
remove_underscores_from(b, str, end, base, p, just_saw_one) ==
    IF p >= end - 1 THEN [ok |-> CharAt(b, end - 1) # "_", b |-> b]
    ELSE IF b[p] # "_" THEN remove_underscores_from(b, str, end, base, p + 1, FALSE)
    ELSE IF just_saw_one THEN [ok |-> FALSE, b |-> b]
    ELSE IF p > str /\ ~digitp(b[p - 1], base) THEN [ok |-> FALSE, b |-> b]
    ELSE IF ~digitp(CharAt(b, p + 1), base) THEN [ok |-> FALSE, b |-> b]
    ELSE remove_underscores_from(ShiftLeft(b, p, end), str, end, base, p, TRUE)

remove_underscores(b, str, end, base) ==
    remove_underscores_from(b, str, end, base, str, FALSE)

\* what read_integer_or_real and read_rational hand back: the value, the buffer
\* as it is left, and the position stored in *end (0 when none was stored)
Parsed(v, b, end) == [res |-> v, b |-> b, end |-> end]

\* the end of read_integer_or_real: the saved character is put back at p
restore_saved(v, b, p, saved_char) ==
    Parsed(v, IF saved_char # NUL THEN Patch(b, p, saved_char) ELSE b, p)

int_part(b, s, p1) ==
    IF p1 = 0 THEN MAKE_INT(0)
    ELSE LET tmp == mpz_init_set_str(b, s, 10)
         IN  IF tmp.ok THEN bignum2number(tmp.v) ELSE STk_false

fract_part(b, p2, p3) ==
    IF ~(p3 > p2) THEN MAKE_INT(0)
    ELSE LET tmp == mpz_init_set_str(b, p2, 10)
         IN  IF tmp.ok
             THEN pcall("make_rational", bignum2number(tmp.v),
                       bignum2number(Pow(10, strlen(b, p2))))
             ELSE STk_false

exp_part(b, p4) ==
    IF p4 = 0 THEN MAKE_INT(1)
    ELSE IF atoi(b, p4) > 0 THEN bignum2number(Pow(10, atoi(b, p4)))
    ELSE pcall("div2", MAKE_INT(1), bignum2number(Pow(10, -atoi(b, p4))))

\* (int_part + fract_part) * exp_part, or #f when a part could not be read
exact_real_value(ip, fp, ep) ==
    IF ip = STk_false \/ fp = STk_false THEN STk_false
    ELSE pcall("mul2", pcall("add2", ip, fp), ep)

\* compute_exact_real on the buffer it has patched at p1 and p3
compute_exact_real_patched(b, s, p1, p2, p3, p4) ==
    [res |-> exact_real_value(int_part(b, s, p1), fract_part(b, p2, p3), exp_part(b, p4)),
     b   |-> b]

compute_exact_real(b, s, p1, p2, p3, p4) ==
    compute_exact_real_patched(Patch(Patch(b, p1, NUL), p3, NUL), s, p1, p2, p3, p4)

\* the run of digits and underscores that starts at p ends here
RECURSIVE SkipDigits(_, _, _)
SkipDigits(b, p, base) ==
    IF digitp(CharAt(b, p), base) \/ CharAt(b, p) = "_" THEN SkipDigits(b, p + 1, base) ELSE p

ExponentMarkers == {"e", "E", "s", "S", "f", "F", "d", "D", "l", "L"}

\* the scan of read_integer_or_real, which writes nothing: ok is FALSE where it
\* returns #f, p1 .. p4 and p are the pointers it sets (0 for NULL)
scan_number(b, str, base) ==
    LET p0   == IF IsSign(CharAt(b, str)) THEN str + 1 ELSE str
        pa   == SkipDigits(b, p0, base)
        dot  == CharAt(b, pa) = "."
        pb   == IF dot THEN SkipDigits(b, pa + 1, base) ELSE pa
        expo == CharAt(b, pb) \in ExponentMarkers
        ps   == IF expo /\ IsSign(CharAt(b, pb + 1)) THEN pb + 2 ELSE pb + 1
    IN  [ok    |-> /\ CharAt(b, p0) # "#"
                   /\ CharAt(b, p0) # "_"
                   /\ (pa > p0 \/ (dot /\ pb > pa + 1))
                   /\ expo => (digitp(CharAt(b, ps), base) \/ CharAt(b, ps) = "_"),
         isint |-> ~dot /\ ~expo /\ \A q \in (p0 + 1)..pa : CharAt(b, q) # "#",
         p1    |-> IF pa > p0 THEN pa ELSE 0,
         p2    |-> IF dot THEN pa + 1 ELSE 0,
         p3    |-> IF dot THEN pb ELSE 0,
         p4    |-> IF expo THEN pb + 1 ELSE 0,
         p     |-> IF expo THEN SkipDigits(b, ps + 1, base) ELSE pb]

\* a long read from the literal, as the flag asks for it
long_as(exact_flag, num) ==
    IF exact_flag = "i" THEN double2real(DOfInt(num)) ELSE MAKE_INT(num)

\* the integer whose digits start at str, the '+' skipped
read_integer_at(b, str, base, exact_flag) ==
    IF strlen(b, str) <= log10_maxint /\ base = 10 THEN long_as(exact_flag, atol(b, str))
    ELSE LET n == mpz_init_set_str(b, str, base)
         IN  IF ~n.ok THEN STk_false
             ELSE IF BIGNUM_FITS_INTEGER(n.v) THEN long_as(exact_flag, n.v)
             ELSE IF exact_flag = "i" THEN scheme_bignum2real(bignum2scheme_bignum(n.v))
             ELSE bignum2scheme_bignum(n.v)

\* the loop that rewrites the float in place: '#' becomes '0', an exponent
\* marker other than 'e' and 'E' becomes 'e'
rewrite_float(b, str) ==
    [k \in 1..Len(b) |->
        IF k < str \/ k >= StrEnd(b, str) THEN b[k]
        ELSE IF b[k] = "#" THEN "0"
        ELSE IF b[k] \in {"s", "S", "f", "F", "d", "D", "l", "L"} THEN "e"
        ELSE b[k]]

\* the float branch for an exact literal, on the rewritten buffer
read_exact_real(cer, p, saved_char) == restore_saved(cer.res, cer.b, p, saved_char)

\* the float branch for an inexact literal: sd is what strtod returned
read_inexact_real(sd, b, saved_char) == restore_saved(double2real(sd.d), b, sd.end, saved_char)

read_float(b, str, exact_flag, sc, saved_char) ==
    IF exact_flag = "e"
    THEN read_exact_real(compute_exact_real(b, str, sc.p1, sc.p2, sc.p3, sc.p4), sc.p, saved_char)
    ELSE read_inexact_real(strtod(b, str), b, saved_char)

\* read_integer_or_real once the underscores are gone
read_value(b, str, base, exact_flag, sc, saved_char) ==
    IF sc.isint
    THEN restore_saved(read_integer_at(b, IF CharAt(b, str) = "+" THEN str + 1 ELSE str,
                                       base, exact_flag),
                       b, sc.p, saved_char)
    ELSE IF base = 10 THEN read_float(rewrite_float(b, str), str, exact_flag, sc, saved_char)
    ELSE restore_saved(STk_false, b, sc.p, saved_char)

read_without_underscores(ru, str, base, exact_flag, sc, saved_char) ==
    IF ~ru.ok THEN Parsed(STk_false, ru.b, 0)
    ELSE read_value(ru.b, str, base, exact_flag, sc, saved_char)

\* read_integer_or_real once the number is ended with a NUL at sc.p
read_terminated(b, str, base, exact_flag, sc, saved_char) ==
    IF strchr(b, str, "_")
    THEN IF ~use_srfi_169 THEN Parsed(STk_false, b, 0)
         ELSE read_without_underscores(remove_underscores(b, str, sc.p, base),
                                       str, base, exact_flag, sc, saved_char)
    ELSE read_value(b, str, base, exact_flag, sc, saved_char)

read_scanned(b, str, base, exact_flag, sc) ==
    IF ~sc.ok THEN Parsed(STk_false, b, 0)
    ELSE read_terminated(Patch(b, sc.p, NUL), str, base, exact_flag, sc, CharAt(b, sc.p))

read_integer_or_real(b, str, base, exact_flag) ==
    read_scanned(b, str, base, exact_flag, scan_number(b, str, base))

\* read_rational once the denominator has been read: r is what
\* read_integer_or_real handed back
read_rational_with(num, r, exact_flag) ==
    IF r.res = STk_false THEN r
    ELSE IF (INTP(num) \/ BIGNUMP(num)) /\ (INTP(r.res) \/ BIGNUMP(r.res))
         THEN Parsed(pcall("make_rational", num, r.res), r.b, r.end)
    ELSE IF exact_flag = "i" THEN Parsed(pcall("div2", num, r.res), r.b, r.end)
    ELSE Parsed(Error("cannot-make-rational"), r.b, r.end)

read_rational(num, b, str, base, exact_flag) ==
    read_rational_with(num, read_integer_or_real(b, str, base, exact_flag), exact_flag)

\* cos and sin of libm, to the precision of the model: the polynomial of
\* degree 4 (of degree 5 for sin) around 0, rounded to the nearest double
DCos(d) ==
    IF ~DIsFinite(d) THEN DNaN(0)
    ELSE LET n  == Abs(DNum(d))
             dd == DDen(d)
             v  == 24 * dd * dd * dd * dd - 12 * n * n * dd * dd + n * n * n * n
         IN  DRound(DSignBit(v), Abs(v), 24 * dd * dd * dd * dd)

DSin(d) ==
    IF ~DIsFinite(d) THEN DNaN(0)
    ELSE IF DIsZero(d) THEN d
    ELSE LET n  == Abs(DNum(d))
             dd == DDen(d)
             v  == 120 * n * dd * dd * dd * dd - 20 * n * n * n * dd * dd + n * n * n * n * n
         IN  DRound(IF v < 0 THEN 1 - d.s ELSE d.s, Abs(v), 120 * dd * dd * dd * dd * dd)

\* my_cos and my_sin for the arguments the parser has: a Complex is not one
my_cos(z) ==
    CASE IsErr(z)     -> z
      [] INTP(z)      -> IF INT_VAL(z) = 0 THEN MAKE_INT(1)
                         ELSE double2real(DCos(DOfInt(INT_VAL(z))))
      [] BIGNUMP(z)   -> double2real(DCos(scheme_bignum2double(z)))
      [] RATIONALP(z) -> double2real(DCos(rational2double(z)))
      [] REALP(z)     -> double2real(DCos(REAL_VAL(z)))
      [] OTHER        -> Error("bad-number")

my_sin(z) ==
    CASE IsErr(z)     -> z
      [] INTP(z)      -> IF INT_VAL(z) = 0 THEN MAKE_INT(0)
                         ELSE double2real(DSin(DOfInt(INT_VAL(z))))
      [] BIGNUMP(z)   -> double2real(DSin(scheme_bignum2double(z)))
      [] RATIONALP(z) -> double2real(DSin(rational2double(z)))
      [] REALP(z)     -> double2real(DSin(REAL_VAL(z)))
      [] OTHER        -> Error("bad-number")

make_polar(a, m) ==
    make_complex(pcall("mul2", a, my_cos(m)), pcall("mul2", a, my_sin(m)))

MINUS_INF == <<"-", "i", "n", "f", ".", "0">>
PLUS_INF  == <<"+", "i", "n", "f", ".", "0">>
MINUS_NaN == <<"-", "n", "a", "n", ".", "0">>
PLUS_NaN  == <<"+", "n", "a", "n", ".", "0">>

\* what STk_Cstr2number returns, and the buffer as it leaves it
Returned(v, b) == [res |-> v, b |-> b]

\* the last line of STk_Cstr2number: #f unless the whole string was read
return_at(num1, b, p) ==
    IF IsErr(num1) THEN Returned(num1, b)
    ELSE Returned(IF CharAt(b, p) # NUL THEN STk_false ELSE num1, b)

\* one "#e", "#i", "#b", "#o", "#d" or "#x" at st.p
read_prefix(b, st) ==
    LET c == CharAt(b, st.p + 1)
    IN  CASE c \in {"e", "i"} /\ st.exact = " " -> [st EXCEPT !.exact = c, !.p = @ + 2]
          [] c = "b" /\ ~st.radix -> [st EXCEPT !.base = 2,  !.radix = TRUE, !.p = @ + 2]
          [] c = "o" /\ ~st.radix -> [st EXCEPT !.base = 8,  !.radix = TRUE, !.p = @ + 2]
          [] c = "d" /\ ~st.radix -> [st EXCEPT !.base = 10, !.radix = TRUE, !.p = @ + 2]
          [] c = "x" /\ ~st.radix -> [st EXCEPT !.base = 16, !.radix = TRUE, !.p = @ + 2]
          [] OTHER -> [st EXCEPT !.ok = FALSE]

read_second_prefix(b, st) ==
    IF st.ok /\ CharAt(b, st.p) = "#" THEN read_prefix(b, st) ELSE st

\* the loop over the prefixes: at most two are read
read_prefixes(b, base) ==
    read_second_prefix(b,
        IF CharAt(b, 1) = "#"
        THEN read_prefix(b, [ok |-> TRUE, p |-> 1, base |-> base, exact |-> " ", radix |-> FALSE])
        ELSE [ok |-> TRUE, p |-> 1, base |-> base, exact |-> " ", radix |-> FALSE])

\* the second member num2 of a complex number has been read up to p
complex_end(num1, num2, b, p, polar) ==
    IF IsErr(num2) THEN Returned(num2, b)
    ELSE IF num2 = STk_false THEN Returned(STk_false, b)
    ELSE IF polar THEN return_at(make_polar(num1, num2), b, p)
    ELSE IF CharAt(b, p) = "i" THEN return_at(make_complex(num1, num2), b, p + 1)
    ELSE Returned(STk_false, b)

complex_rational(num1, rr, polar) == complex_end(num1, rr.res, rr.b, rr.end, polar)

\* the general case ....[+-@]...: r is the second member as first read
complex_general(num1, r, st, polar) ==
    IF r.res = STk_false THEN Returned(STk_false, r.b)
    ELSE IF CharAt(r.b, r.end) = "/"
         THEN complex_rational(num1,
                               read_rational(r.res, r.b, r.end + 1, st.base, st.exact), polar)
    ELSE complex_end(num1, r.res, r.b, r.end, polar)

\* STk_Cstr2number from the test of the character after the first member on
complex_part(num1, b, p, st, is_signed) ==
    IF IsErr(num1) THEN Returned(num1, b)
    ELSE IF CharAt(b, p) \in {"+", "-", "@"}
         THEN IF CharAt(b, p) = "+" /\ CharAt(b, p + 1) = "i"
              THEN return_at(make_complex(num1, MAKE_INT(1)), b, p + 2)
              ELSE IF CharAt(b, p) = "-" /\ CharAt(b, p + 1) = "i"
              THEN return_at(make_complex(num1, MAKE_INT(-1)), b, p + 2)
              ELSE complex_general(num1,
                       read_integer_or_real(b, IF CharAt(b, p) = "@" THEN p + 1 ELSE p,
                                            st.base, st.exact),
                       st, CharAt(b, p) = "@")
    ELSE IF CharAt(b, p) = "i" /\ is_signed
         THEN return_at(make_complex(MAKE_INT(0), num1), b, p + 1)
    ELSE return_at(num1, b, p)

\* the first member was followed by '/': rr is what read_rational handed
\* back, p the position of the '/'
first_rational(rr, p, st, is_signed) ==
    complex_part(rr.res, rr.b, IF rr.end = 0 THEN p ELSE rr.end, st, is_signed)

\* r is the first member as read_integer_or_real handed it back
first_member(r, st, is_signed) ==
    IF r.res = STk_false THEN Returned(STk_false, r.b)
    ELSE IF CharAt(r.b, r.end) = "/"
         THEN first_rational(read_rational(r.res, r.b, r.end + 1, st.base, st.exact),
                             r.end, st, is_signed)
    ELSE complex_part(r.res, r.b, r.end, st, is_signed)

after_prefixes(b, st, is_signed) ==
    IF ~st.ok THEN Returned(STk_false, b)
    ELSE first_member(read_integer_or_real(b, st.p, st.base, st.exact), st, is_signed)

STk_Cstr2number(b, base) ==
    IF IsSign(CharAt(b, 1)) /\ isalpha(CharAt(b, 2)) /\ StrFrom(b, 1) = MINUS_INF
    THEN Returned(double2real(DInf(1)), b)
    ELSE IF IsSign(CharAt(b, 1)) /\ isalpha(CharAt(b, 2)) /\ StrFrom(b, 1) = PLUS_INF
    THEN Returned(double2real(DInf(0)), b)
    ELSE IF IsSign(CharAt(b, 1)) /\ isalpha(CharAt(b, 2)) /\ StrFrom(b, 1) = MINUS_NaN
    THEN Returned(double2real(DNaN(1)), b)
    ELSE IF IsSign(CharAt(b, 1)) /\ isalpha(CharAt(b, 2)) /\ StrFrom(b, 1) = PLUS_NaN
    THEN Returned(double2real(DNaN(0)), b)
    ELSE IF StrFrom(b, 1) = <<"+", "i">>
    THEN Returned(make_complex(MAKE_INT(0), MAKE_INT(1)), b)
    ELSE IF StrFrom(b, 1) = <<"-", "i">>
    THEN Returned(make_complex(MAKE_INT(0), MAKE_INT(-1)), b)
    ELSE after_prefixes(b, read_prefixes(b, base), IsSign(CharAt(b, 1)))

(***************************************************************************)
(* quotient, remainder, modulo.                                            *)
(***************************************************************************)
QR(q, r) == [t |-> "qr", q |-> q, r |-> r]

\* the process is stopped: an invalid operation of GMP, a division by zero
Aborted == [t |-> "aborted"]

Outcomes(v) == IF v.t = "undefined" THEN v.outcomes ELSE {v}

OneOf(S) == IF Cardinality(S) = 1 THEN CHOOSE v \in S : TRUE
            ELSE [t |-> "undefined", outcomes |-> S]

\* a call whose behaviour C or GMP leaves undefined: what the builds can yield
Undefined(S) == OneOf(UNION {Outcomes(v) : v \in S})

\* double2integer(v) for an infinity v, which floor(v) != v lets through:
\* mpz_init_set_d stops the process in GMP and yields 0 in mini-gmp
MpzOfInf == Undefined({Aborted, MAKE_INT(0)})

real2integer(r) ==
    IF DIsInf(REAL_VAL(r)) THEN MpzOfInf
    ELSE IF ~(DIsFinite(REAL_VAL(r)) /\ REAL_VAL(r).e >= 0) THEN Error("not-an-integer")
    ELSE double2integer(REAL_VAL(r))

\* integer_division from its division on: x and y are integers
divide_integers(x1, y1, exact) ==
    IF x1 = Aborted \/ y1 = Aborted THEN Aborted
    ELSE IF INTP(x1) /\ INTP(y1)
    THEN (IF INT_VAL(y1) = 0
          THEN Undefined({Aborted, QR(double2real(DOfInt(0)), double2real(DOfInt(INT_VAL(x1))))})
          ELSE IF exact
          THEN QR(MAKE_INT(TDiv(INT_VAL(x1), INT_VAL(y1))),
                  MAKE_INT(TRem(INT_VAL(x1), INT_VAL(y1))))
          ELSE QR(double2real(DOfInt(TDiv(INT_VAL(x1), INT_VAL(y1)))),
                  double2real(DOfInt(TRem(INT_VAL(x1), INT_VAL(y1))))))
    ELSE IF y1.v = 0 THEN Aborted
    ELSE IF exact THEN QR(bignum2number(TDiv(x1.v, y1.v)), bignum2number(TRem(x1.v, y1.v)))
    ELSE QR(double2real(DOfInt(TDiv(x1.v, y1.v))), double2real(DOfInt(TRem(x1.v, y1.v))))

\* integer_division once y is converted
divide_by(x1, y1, exact) ==
    IF x1 = Aborted THEN Aborted
    ELSE IF IsErr(y1) THEN y1
    ELSE Undefined({divide_integers(x1, v, exact) : v \in Outcomes(y1)})

\* integer_division once x is converted
divide(x1, y0, exact) ==
    IF IsErr(x1) THEN x1
    ELSE Undefined({divide_by(v, IF REALP(y0) THEN real2integer(y0) ELSE y0, exact) :
                    v \in Outcomes(x1)})

\* the pair of quotient and remainder, or the error signalled
integer_division(x0, y0) ==
    IF IsErr(x0) THEN x0
    ELSE IF IsErr(y0) THEN y0
    ELSE IF ~INTP(x0) /\ ~BIGNUMP(x0) /\ ~REALP(x0) THEN Error("bad-number")
    ELSE IF ~INTP(y0) /\ ~BIGNUMP(y0) /\ ~REALP(y0) THEN Error("bad-number")
    ELSE IF zerop(y0) THEN Error("divide-by-zero")
    ELSE divide(IF REALP(x0) THEN real2integer(x0) ELSE x0, y0, ~REALP(x0) /\ ~REALP(y0))

quotient_of(qr) == IF qr.t = "qr" THEN qr.q ELSE qr

remainder_of(qr) == IF qr.t = "qr" THEN qr.r ELSE qr

STk_quotient(n1, n2) == Undefined({quotient_of(v) : v \in Outcomes(integer_division(n1, n2))})

STk_remainder(n1, n2) == Undefined({remainder_of(v) : v \in Outcomes(integer_division(n1, n2))})

\* modulo once integer_division has returned
modulo_of(qr, n1, n2) ==
    IF qr.t # "qr" THEN qr
    ELSE IF negativep(n1) # negativep(n2) /\ ~zerop(qr.r) THEN call("add2", qr.r, n2)
    ELSE qr.r

primitive_modulo(n1, n2) ==
    Undefined({modulo_of(v, n1, n2) : v \in Outcomes(integer_division(n1, n2))})

(***************************************************************************)
(* gcd, lcm: argv is the sequence of the arguments, the first one first.   *)
(***************************************************************************)
\* for (res = *argv--; --argc; argv--) res = gcd2(res, *argv), from argument k on
RECURSIVE gcd_loop(_, _, _)
gcd_loop(acc, argv, k) ==
    IF k > Len(argv) THEN acc
    ELSE gcd_loop(call("gcd2", acc, argv[k]), argv, k + 1)

primitive_gcd(argv) ==
    IF Len(argv) = 0 THEN MAKE_INT(0)
    ELSE IF Len(argv) = 1 THEN call("absolute", call("gcd2", argv[1], MAKE_INT(0)), MAKE_INT(0))
    ELSE call("absolute", gcd_loop(argv[1], argv, 2), MAKE_INT(0))

\* the loop of lcm, from argument k on
RECURSIVE lcm_loop(_, _, _)
lcm_loop(acc, argv, k) ==
    IF k > Len(argv) THEN acc
    ELSE lcm_loop(call("mul2", acc, call("div2", argv[k], call("gcd2", acc, argv[k]))),
                  argv, k + 1)

primitive_lcm(argv) ==
    IF Len(argv) = 0 THEN MAKE_INT(1)
    ELSE IF ~NUMBERP(argv[1]) THEN Error("bad-number")
    ELSE call("absolute", lcm_loop(argv[1], argv, 2), MAKE_INT(0))

(***************************************************************************)
(* Comparisons: =, <, >, <=, >= on the sequence argv of their arguments.    *)
(***************************************************************************)
Long(n) == [t |-> "long", v |-> n]

STk_complexp(v) == NUMBERP(v)

STk_realp(v) ==
    CASE COMPLEXP(v) -> zerop(v.im)
      [] REALP(v) \/ RATIONALP(v) \/ BIGNUMP(v) \/ INTP(v) -> TRUE
      [] OTHER -> FALSE

\* the label double_diff of do_compare
double_diff(d1, d2) ==
    IF DIsNaN(d1) /\ DIsNaN(d2) THEN Long(0)
    ELSE IF DEq(d1, d2) THEN Long(0)
    ELSE IF DLess(d1, d2) THEN Long(-1) ELSE Long(1)

\* the label general_diff of do_compare, d being sub2(x, y)
general_diff(d) ==
    IF IsErr(d) THEN d
    ELSE IF zerop(d) THEN Long(0)
    ELSE IF COMPLEXP(d) THEN Long(1)
    ELSE IF negativep(d) THEN Long(-1) ELSE Long(1)

do_compare(x0, y0) ==
    CASE ~NUMBERP(x0) \/ ~NUMBERP(y0) -> Error("comparison-impossible")
      [] REALP(x0) /\ REALP(y0) -> double_diff(REAL_VAL(x0), REAL_VAL(y0))
      [] REALP(x0) /\ INTP(y0)  -> double_diff(REAL_VAL(x0), DOfInt(INT_VAL(y0)))
      [] INTP(x0) /\ REALP(y0)  -> double_diff(DOfInt(INT_VAL(x0)), REAL_VAL(y0))
      [] INTP(x0) /\ INTP(y0)   -> Long(INT_VAL(x0) - INT_VAL(y0))
      [] OTHER                  -> general_diff(call("sub2", x0, y0))

\* _max_type_ of COMPARE_NUM
max_type(sname, v) == IF sname = "=" THEN STk_complexp(v) ELSE STk_realp(v)

\* do_compare(previous, *argv) _operator_ 0: the comparison ends the chain
compare_fails(sname, c) ==
    CASE sname = "="  -> c # 0
      [] sname = "<"  -> c >= 0
      [] sname = ">"  -> c <= 0
      [] sname = "<=" -> c > 0
      [] sname = ">=" -> c < 0

\* the loop of COMPARE_NUM from argument k on, previous being argument k - 1
RECURSIVE compare_loop(_, _, _)
compare_next(sname, argv, k, c) ==
    IF IsErr(c) THEN c
    ELSE IF compare_fails(sname, c.v) THEN STk_false
    ELSE compare_loop(sname, argv, k + 1)

compare_loop(sname, argv, k) ==
    IF k > Len(argv) THEN STk_true
    ELSE IF ~max_type(sname, argv[k]) THEN Error("bad-number")
    ELSE compare_next(sname, argv, k, do_compare(argv[k - 1], argv[k]))

COMPARE_NUM(sname, argv) ==
    IF Len(argv) = 0 THEN Error("at-least-1")
    ELSE IF ~max_type(sname, argv[1]) THEN Error("not-a-real-number")
    ELSE compare_loop(sname, argv, 2)

(***************************************************************************)
(* expt.  The exponentials pow, exp and log are not modelled: expt is      *)
(* called with the operands the code raises without them.                  *)
(***************************************************************************)
\* the while loop of exact_exponent_expt, for a Real or a Complex base
RECURSIVE expt_loop(_, _, _)
expt_loop(x0, y0, val) ==
    IF y0 = MAKE_INT(1) THEN call("mul2", val, x0)
    ELSE expt_loop(call("mul2", x0, x0), call("quotient", y0, MAKE_INT(2)),
                   IF INT_VAL(y0) % 2 # 0 THEN call("mul2", x0, val) ELSE val)

\* mpz_pow_ui(res, BIGNUM_VAL(x), INT_VAL(y)) on the mpz_t res that no call
\* of mpz_init has set up: GMP grows the limbs of res at whatever address the
\* stack holds, which stops the process unless the stack happens to hold zeros
mpz_pow_ui_uninit(b, e) == Undefined({Aborted, bignum2number(Pow(b, e))})

\* make_rational on what the two recursive calls yield
expt_rational(n, d) ==
    IF n = Aborted \/ d = Aborted THEN Aborted ELSE call("make_rational", n, d)

RECURSIVE exact_exponent_expt(_, _)
exact_exponent_expt(x0, y0) ==
    IF zerop(y0) THEN MAKE_INT(1)
    ELSE IF zerop(x0) \/ x0 = MAKE_INT(1) THEN x0
    ELSE IF BIGNUMP(y0) THEN Error("exponent-too-big")
    ELSE CASE INTP(x0)      -> bignum2number(Pow(INT_VAL(x0), INT_VAL(y0)))
           [] BIGNUMP(x0)   -> mpz_pow_ui_uninit(x0.v, INT_VAL(y0))
           [] RATIONALP(x0) ->
                Undefined({expt_rational(n, d) :
                             n \in Outcomes(exact_exponent_expt(x0.num, y0)),
                             d \in Outcomes(exact_exponent_expt(x0.den, y0))})
           [] OTHER         -> expt_loop(x0, y0, MAKE_INT(1))

\* what my_expt computes with pow, or with exp and log
Transcendental == [t |-> "transcendental"]

\* a power of zero that is zero whatever the exponent
my_expt_zero(x0, y0) == IF zerop(x0) THEN x0 ELSE exact_exponent_expt(x0, y0)

\* my_expt(x, y) for y >= 0, or y a Complex
my_expt(x0, y0) ==
    CASE INTP(y0) \/ BIGNUMP(y0) -> exact_exponent_expt(x0, y0)
      [] (RATIONALP(y0) \/ REALP(y0)) /\ zerop(y0) -> double2real(DNorm(0, 1, 0))
      [] (RATIONALP(y0) \/ REALP(y0)) /\ zerop(x0) ->
            IF x0 = MAKE_INT(0) THEN x0 ELSE double2real(DZero(0))
      [] COMPLEXP(y0) /\ zerop(x0) ->
            IF positivep(y0.re)
            THEN (IF isexactp(x0) THEN MAKE_INT(0) ELSE double2real(DZero(0)))
            ELSE Error("power-of-zero")
      [] NUMBERP(y0) -> Transcendental
      [] OTHER -> Error("cannot-operate")

\* div2(MAKE_INT(1), p), p being what my_expt yields
expt_reciprocal(p) ==
    IF p = Aborted \/ p = Transcendental \/ IsErr(p) THEN p
    ELSE call("div2", MAKE_INT(1), p)

primitive_expt(x0, y0) ==
    IF ~COMPLEXP(y0) /\ negativep(y0)
    THEN Undefined({expt_reciprocal(p) :
                      p \in Outcomes(my_expt(x0, call("sub2", MAKE_INT(0), y0)))})
    ELSE my_expt(x0, y0)

(***************************************************************************)
(* sqrt and magnitude.                                                     *)
(***************************************************************************)
\* width of a C int
IntBits == WordBits \div 2

\* a * b on ints, the C product of (int) d by itself; undefined when it
\* overflows, and then what the build yields for an overflowed signed product
IntMul(a, b) ==
    IF a * b < Pow(2, IntBits - 1) THEN a * b
    ELSE CASE ovf = "wrap" -> ((a * b + Pow(2, IntBits - 1)) % Pow(2, IntBits)) - Pow(2, IntBits - 1)
           [] ovf = "max"  -> Pow(2, IntBits - 1) - 1
           [] OTHER        -> 0

\* the largest r with r * r <= n (mpz_sqrt)
ISqrtStep(s, n) == IF (s + 1) * (s + 1) <= n THEN s + 1 ELSE s

RECURSIVE ISqrt(_)
ISqrt(n) == IF n < 2 THEN n ELSE ISqrtStep(2 * ISqrt(n \div 4), n)

\* the double nearest to n * 2^k
DScaled(n, k) == IF k >= 0 THEN DRound(0, n * Pow(2, k), 1) ELSE DRound(0, n, Pow(2, -k))

\* the double nearest to sqrt(m) * 2^k, q being the integer square root of
\* m: an inexact root lies strictly between q and q + 1
DSqrtRound(q, m, k) == IF q * q = m THEN DScaled(q, k) ELSE DScaled(2 * q + 1, k - 1)

\* sqrt(m * 2^e) for an even e, the root taken on m * 4^(MantBits + 1)
DSqrtEven(m, e) ==
    DSqrtRound(ISqrt(m * Pow(4, MantBits + 1)), m * Pow(4, MantBits + 1),
               (e \div 2) - (MantBits + 1))

\* sqrt of libm on a double, correctly rounded
DSqrt(d) ==
    CASE DIsNaN(d)  -> d
      [] DIsZero(d) -> d
      [] d.s = 1    -> DNaN(1)
      [] DIsInf(d)  -> d
      [] OTHER      -> IF d.e % 2 = 0 THEN DSqrtEven(d.m, d.e) ELSE DSqrtEven(2 * d.m, d.e - 1)

\* (int) d for a double d >= 0
IntOfDouble(d) == Abs(DNum(d)) \div DDen(d)

\* the test of my_sqrt_exact on a SmallInteger i, d being sqrt((double) i)
sqrt_fixnum(i, d) ==
    IF IntMul(IntOfDouble(d), IntOfDouble(d)) = i THEN MAKE_INT(IntOfDouble(d))
    ELSE double2real(d)

\* the test of my_sqrt_exact on a BigInteger, root being what mpz_sqrt left
sqrt_bignum(bn, root) ==
    IF root * root = bn.v THEN bignum2number(root)
    ELSE call("sqrt", scheme_bignum2real(bn), MAKE_INT(0))

RECURSIVE my_sqrt_exact(_)
my_sqrt_exact(x0) ==
    IF zerop(x0) THEN MAKE_INT(0)
    ELSE IF negativep(x0)
         THEN Cmake_complex(MAKE_INT(0), my_sqrt_exact(call("mul2", MAKE_INT(-1), x0)))
    ELSE IF INTP(x0) THEN sqrt_fixnum(INT_VAL(x0), DSqrt(DOfInt(INT_VAL(x0))))
    ELSE sqrt_bignum(x0, ISqrt(x0.v))

primitive_sqrt(z) ==
    CASE INTP(z) \/ BIGNUMP(z) -> my_sqrt_exact(z)
      [] RATIONALP(z) -> call("div2", my_sqrt_exact(z.num), my_sqrt_exact(z.den))
      [] REALP(z) ->
           IF DLess(REAL_VAL(z), DZero(0)) /\ DIsFinite(REAL_VAL(z))
           THEN Cmake_complex(MAKE_INT(0), double2real(DSqrt(DNeg(REAL_VAL(z)))))
           ELSE double2real(DSqrt(REAL_VAL(z)))
      [] COMPLEXP(z) -> Transcendental
      [] OTHER -> Error("bad-number")

primitive_magnitude(z) ==
    CASE INTP(z) \/ BIGNUMP(z) \/ RATIONALP(z) \/ REALP(z) -> absolute(z)
      [] COMPLEXP(z) ->
           call("sqrt", call("add2", call("mul2", z.re, z.re), call("mul2", z.im, z.im)),
                MAKE_INT(0))
      [] OTHER -> Error("bad-number")

(***************************************************************************)
(* floor, ceiling, truncate, round.                                        *)
(***************************************************************************)
\* floor and ceil of libm
DFloor(d) ==
    IF ~DIsFinite(d) \/ d.e >= 0 THEN d
    ELSE IF DNum(d) \div DDen(d) = 0 THEN DZero(0)
    ELSE DRound(DSignBit(DNum(d) \div DDen(d)), Abs(DNum(d) \div DDen(d)), 1)

DCeil(d) == DNeg(DFloor(DNeg(d)))

DHalf == DNorm(0, 1, -1)

primitive_floor(x0) ==
    CASE REALP(x0) -> double2real(DFloor(REAL_VAL(x0)))
      [] RATIONALP(x0) ->
           call("quotient", IF negativep(x0.num)
                        THEN call("sub2", x0.num, call("sub2", x0.den, MAKE_INT(1)))
                        ELSE x0.num,
                        x0.den)
      [] BIGNUMP(x0) \/ INTP(x0) -> x0
      [] OTHER -> Error("not-a-real-number")

primitive_ceiling(x0) ==
    CASE REALP(x0) -> double2real(DCeil(REAL_VAL(x0)))
      [] RATIONALP(x0) ->
           call("quotient", IF negativep(x0.num)
                        THEN x0.num
                        ELSE call("add2", x0.num, call("sub2", x0.den, MAKE_INT(1))),
                        x0.den)
      [] BIGNUMP(x0) \/ INTP(x0) -> x0
      [] OTHER -> Error("not-a-real-number")

primitive_truncate(x0) ==
    CASE REALP(x0) ->
           double2real(IF DLess(REAL_VAL(x0), DZero(0)) THEN DCeil(REAL_VAL(x0))
                       ELSE DFloor(REAL_VAL(x0)))
      [] RATIONALP(x0) -> call("quotient", x0.num, x0.den)
      [] BIGNUMP(x0) \/ INTP(x0) -> x0
      [] OTHER -> Error("not-a-real-number")

\* round on a double, d being REAL_VAL(x) + 0.5
round_real(d) ==
    IF DEq(d, DFloor(d)) /\ ~DEq(DDiv(d, DNorm(0, 2, 0)), DFloor(DDiv(d, DNorm(0, 2, 0))))
    THEN DSub(DFloor(d), DNorm(0, 1, 0))
    ELSE DFloor(d)

\* round on a Rational whose denominator is the SmallInteger 2
round_half(x0) ==
    call("mul2",
         call("quotient", IF negativep(x0.num) THEN call("sub2", x0.num, MAKE_INT(1))
                      ELSE call("add2", x0.num, MAKE_INT(1)),
                      MAKE_INT(4)),
         MAKE_INT(2))

round_rational(x0) ==
    IF EqPtr(x0.den, MAKE_INT(2)) THEN round_half(x0)
    ELSE primitive_floor(call("make_rational",
                              call("add2", call("mul2", x0.num, MAKE_INT(2)), x0.den),
                              call("mul2", x0.den, MAKE_INT(2))))

primitive_round(x0) ==
    CASE REALP(x0) -> double2real(round_real(DAdd(REAL_VAL(x0), DHalf)))
      [] RATIONALP(x0) -> round_rational(x0)
      [] BIGNUMP(x0) \/ INTP(x0) -> x0
      [] OTHER -> Error("not-a-real-number")

(***************************************************************************)
(* decode-float and encode-float.  DBL_MANT_DIG is MantBits; a double is   *)
(* normal when its binary exponent, as frexp counts it, is DBL_MIN_EXP or  *)
(* more, and the subnormal doubles are the multiples of                    *)
(* 2^(DBL_MIN_EXP - DBL_MANT_DIG) below the normal ones.                   *)
(***************************************************************************)
DBL_MAX_EXP == 23

DBL_MIN_EXP == 3 - DBL_MAX_EXP

\* STk_n_values(3, a, b, c)
Values3(a, b, c) == [t |-> "values", vals |-> <<a, b, c>>]

\* the exponent frexp stores for a double d > 0: d = DD * 2^e, 1/2 <= DD < 1
frexp_exp(d) == d.e + SizeInBase2(d.m)

isnormal(d) == DIsFinite(d) /\ ~DIsZero(d) /\ frexp_exp(d) >= DBL_MIN_EXP

\* the exponent decode settles for a double d > 0
decode_exp(d) == (IF isnormal(d) THEN frexp_exp(d) ELSE DBL_MIN_EXP) - MantBits

\* decode for a finite double d > 0 and the exponent e
decode_parts(d, e, sign) ==
    Values3(double2integer(DNorm(0, d.m, d.e - e)), MAKE_INT(e), sign)

decode(num) ==
    IF DIsNaN(REAL_VAL(num)) THEN Values3(STk_false, MAKE_INT(0), MAKE_INT(0))
    ELSE IF DIsInf(REAL_VAL(num)) THEN Values3(STk_true, MAKE_INT(0), MAKE_INT(0))
    ELSE IF DIsZero(REAL_VAL(num))
         THEN Values3(MAKE_INT(0), MAKE_INT(0),
                      MAKE_INT(IF REAL_VAL(num).s = 1 THEN -1 ELSE 1))
    ELSE decode_parts(REAL_VAL(num), decode_exp(REAL_VAL(num)),
                      MAKE_INT(IF REAL_VAL(num).s = 1 THEN -1 ELSE 1))

decode_float(n) ==
    IF ~NUMBERP(n) \/ COMPLEXP(n) THEN Error("not-a-real-number")
    ELSE IF isexactp(n) THEN decode(exact2inexact(n))
    ELSE decode(n)

\* encode-float from the test of the significand on; g and e are the sign
\* and the exponent as C integers
encode_checked(significand, exponent, sign, g, e) ==
    IF significand = STk_false THEN double2real(DNaN(0))
    ELSE IF significand = STk_true
         THEN (IF g >= 0 THEN double2real(DInf(0)) ELSE double2real(DInf(1)))
    ELSE IF ~STk_integerp(significand) THEN Error("not-an-integer")
    ELSE IF negativep(significand) THEN Error("negative-significand")
    ELSE IF do_compare(significand, bignum2number(Pow(2, MantBits) - 1)).v > 0
         THEN Error("significand-above-maximum")
    ELSE IF e < DBL_MIN_EXP - MantBits THEN Error("exponent-below-minimum")
    ELSE IF e > DBL_MAX_EXP - MantBits THEN Error("exponent-above-maximum")
    ELSE call("mul2", call("mul2", sign, significand),
              call("expt", MAKE_INT(2), exponent))

encode_float(significand, exponent, sign) ==
    IF ~STk_integerp(exponent) THEN Error("not-an-integer")
    ELSE IF ~STk_integerp(sign) THEN Error("not-an-integer")
    ELSE encode_checked(significand, exponent, sign,
                        INT_VAL(call("inexact2exact", sign, sign)),
                        INT_VAL(call("inexact2exact", exponent, exponent)))

(***************************************************************************)
(* The routines that call one another.                                     *)
(***************************************************************************)
call(f, a, b) ==
    CASE f = "add2"          -> STk_add2(a, b)
      [] f = "sub2"          -> STk_sub2(a, b)
      [] f = "mul2"          -> STk_mul2(a, b)
      [] f = "div2"          -> STk_div2(a, b)
      [] f = "make_rational" -> make_rational(a, b)
      [] f = "gcd2"          -> gcd2(a, b)
      [] f = "inexact2exact" -> inexact2exact(a)
      [] f = "absolute"      -> absolute(a)
      [] f = "quotient"      -> STk_quotient(a, b)
      [] f = "modulo"        -> primitive_modulo(a, b)
      [] f = "gcd"           -> primitive_gcd(a)
      [] f = "lcm"           -> primitive_lcm(a)
      [] f = "compare"       -> COMPARE_NUM(a, b)
      [] f = "expt"          -> primitive_expt(a, b)
      [] f = "sqrt"          -> primitive_sqrt(a)
      [] f = "magnitude"     -> primitive_magnitude(a)
      [] f = "floor"         -> primitive_floor(a)
      [] f = "ceiling"       -> primitive_ceiling(a)
      [] f = "truncate"      -> primitive_truncate(a)
      [] f = "round"         -> primitive_round(a)
      [] f = "decode-float"  -> decode_float(a)
      [] f = "encode-float"  -> encode_float(a[1], a[2], a[3])

\* the calls of the parser: the parser itself when it is entered, and what
\* it calls of the arithmetic
pcall(f, a, b) ==
    CASE f = "STk_Cstr2number" -> STk_Cstr2number(a, b)
      [] OTHER -> call(f, a, b)

\* the names number.c gives the four operations for its own use
add2(a, b) == call("add2", a, b)

sub2(a, b) == call("sub2", a, b)

mul2(a, b) == call("mul2", a, b)

div2(a, b) == call("div2", a, b)

modulo_unadjusted(n1, n2) == STk_remainder(n1, n2)

STk_modulo(n1, n2) == call("modulo", n1, n2)

STk_gcd(argv) == call("gcd", argv, MAKE_INT(0))

STk_lcm(argv) == call("lcm", argv, MAKE_INT(0))

\* the primitive string->number on the characters of its string
string2number(b, base) ==
    IF base \notin Radixes THEN Returned(Error("incorrect-radix"), b)
    ELSE pcall("STk_Cstr2number", b, base)

(***************************************************************************)
(* The operands the primitives are called with.                            *)
(***************************************************************************)
IntV(n) == bignum2number(n)

RatV(n, d) == Cmake_rational(IntV(n), IntV(d))

RealV(s, m, e) == double2real(DNorm(s, m, e))

CplxV(r, i) == Cmake_complex(r, i)

B == INT_MAX_VAL + 1

IntPool ==
    {IntV(n) : n \in {-2 * B, -B - 1, -B, 1 - B, -6, -4, -3, -2, -1, 0,
                     1, 2, 3, 4, 6, 14, B - 1, B, B + 1, B + 4, 2 * B}}

RatPool == {RatV(1, 2), RatV(-3, 2), RatV(2, 3), RatV(B + 1, 2), RatV(-1, B + 1)}

RealPool ==
    {RealV(0, 0, 0), RealV(1, 0, 0), RealV(0, 1, 0), RealV(0, 3, -1), RealV(1, 1, 1),
     double2real(DInf(0)), double2real(DInf(1)), double2real(DNaN(0))}

CplxPool ==
    {CplxV(IntV(1), IntV(2)), CplxV(IntV(0), IntV(1)), CplxV(RatV(1, 2), IntV(-1)),
     CplxV(IntV(3), IntV(4)), CplxV(RealV(0, 1, 0), RealV(0, 1, 0))}

Pool == IntPool \cup RatPool \cup RealPool \cup CplxPool

NoValue == [t |-> "none"]

\* the weight of a result: only light results are used again as operands
RECURSIVE Weight(_)
Weight(v) ==
    CASE INTP(v) \/ BIGNUMP(v) -> Abs(v.v)
      [] RATIONALP(v) -> (Abs(v.num.v) + 1) * v.den.v
      [] REALP(v)     -> IF DIsFinite(REAL_VAL(v)) THEN Abs(DNum(REAL_VAL(v))) + DDen(REAL_VAL(v)) ELSE 1
      [] COMPLEXP(v)  -> (Weight(v.re) + 1) * (Weight(v.im) + 1)
      [] OTHER        -> MaxFeed + 1

Init ==
    /\ x \in Pool
    /\ y \in Pool
    /\ op = "init"
    /\ res = NoValue
    /\ input = <<>>
    /\ buf = <<>>
    /\ radix = 10
    /\ use_srfi_169 = TRUE
    /\ real_precision = 15
    /\ ovf \in OvfOutcomes

Call(name, value) ==
    /\ op = "init"
    /\ op' = name
    /\ res' = value
    /\ UNCHANGED <<x, y, input, buf, radix, use_srfi_169, real_precision, ovf>>

Add == Call("add", add2(x, y))

Sub == Call("sub", sub2(x, y))

Mul == Call("mul", mul2(x, y))

Div == Call("div", div2(x, y))

Quotient == \E v \in Outcomes(STk_quotient(x, y)) : Call("quotient", v)

Remainder == \E v \in Outcomes(STk_remainder(x, y)) : Call("remainder", v)

Modulo == \E v \in Outcomes(STk_modulo(x, y)) : Call("modulo", v)

AbsX == Call("abs", absolute(x))

\* convert(&x, &y) at the head of a binary primitive: the tag it returns and
\* the two operands as it leaves them
Convert ==
    Call("convert", [t |-> "converted", tc |-> convert(x, y).tc,
                     x |-> convert(x, y).x, y |-> convert(x, y).y])

\* the result of a call becomes the first, or the second, operand of the next
FeedX ==
    /\ op # "init"
    /\ NUMBERP(res)
    /\ Weight(res) <= MaxFeed
    /\ x' = res
    /\ op' = "init"
    /\ res' = NoValue
    /\ UNCHANGED <<y, input, buf, radix, use_srfi_169, real_precision, ovf>>

FeedY ==
    /\ op # "init"
    /\ NUMBERP(res)
    /\ Weight(res) <= MaxFeed
    /\ y' = res
    /\ op' = "init"
    /\ res' = NoValue
    /\ UNCHANGED <<x, input, buf, radix, use_srfi_169, real_precision, ovf>>

\* the radixes number->string is called with: the four it accepts and another
CalledRadixes == Radixes \cup {3}

\* (number->string x r)
NumberToString ==
    /\ op = "init"
    /\ \E r \in CalledRadixes :
          /\ radix' = r
          /\ res' = number2string(x, r)
    /\ op' = "number->string"
    /\ UNCHANGED <<x, y, input, buf, use_srfi_169, real_precision, ovf>>

Next ==
    \/ Add \/ Sub \/ Mul \/ Div \/ Quotient \/ Remainder \/ Modulo \/ AbsX
    \/ Convert
    \/ NumberToString
    \/ FeedX \/ FeedY

Spec == Init /\ [][Next]_vars

(***************************************************************************)
(* The fixnum arithmetic on every pair of SmallIntegers.                   *)
(***************************************************************************)
Fixnums == {MAKE_INT(n) : n \in INT_MIN_VAL..INT_MAX_VAL}

InitFix ==
    /\ x \in Fixnums
    /\ y \in Fixnums
    /\ op = "init"
    /\ res = NoValue
    /\ input = <<>>
    /\ buf = <<>>
    /\ radix = 10
    /\ use_srfi_169 = TRUE
    /\ real_precision = 15
    /\ ovf \in OvfOutcomes

NextFix == Add \/ Sub \/ Mul \/ Quotient \/ Remainder

SpecFix == InitFix /\ [][NextFix]_vars

(***************************************************************************)
(* The parser on literals put together from a prefix, a sign, integer      *)
(* digits, a fraction, an exponent and what follows the first number.      *)
(***************************************************************************)
LitPrefixes == {<<>>, <<"#", "e">>, <<"#", "i">>, <<"#", "x">>}

LitSigns == {<<>>, <<"+">>, <<"-">>}

LitInts == {<<>>, <<"1">>, <<"1", "2">>, <<"4", "0">>, <<"1", "_", "0">>, <<"1", "#">>}

LitFracs == {<<>>, <<".">>, <<".", "5">>, <<".", "2", "5">>}

LitExps == {<<>>, <<"e", "1">>, <<"e", "-", "1">>, <<"e">>}

LitTails ==
    {<<>>, <<"/", "2">>, <<"/", "0">>, <<"/">>,
     <<"i">>, <<"+", "i">>, <<"+", "2", "i">>, <<"-", "1", "/", "2", "i">>,
     <<"/", "1", ".", "5", "+", "i">>, <<"/", "+", "1", ".", "5", "+", "i">>,
     <<"@", "0">>, <<"x">>}

Literals ==
    {p \o s \o i \o f \o e \o t :
        p \in LitPrefixes, s \in LitSigns, i \in LitInts, f \in LitFracs,
        e \in LitExps, t \in LitTails}

InitParse ==
    /\ x = MAKE_INT(0)
    /\ y = MAKE_INT(0)
    /\ op = "init"
    /\ res = NoValue
    /\ input \in {CStr(l) : l \in Literals}
    /\ buf = <<>>
    /\ radix \in Radixes
    /\ use_srfi_169 = TRUE
    /\ real_precision = 15
    /\ ovf \in OvfOutcomes

\* (string->number s r), s holding the characters of input
StringToNumber ==
    /\ op = "init"
    /\ LET r == string2number(input, radix)
       IN  res' = r.res /\ buf' = r.b
    /\ op' = "string->number"
    /\ UNCHANGED <<x, y, input, radix, use_srfi_169, real_precision, ovf>>

\* the string is handed to the parser once more, as the last call left it
ParseAgain ==
    /\ op = "string->number"
    /\ buf # input
    /\ input' = buf
    /\ op' = "init"
    /\ res' = NoValue
    /\ UNCHANGED <<x, y, buf, radix, use_srfi_169, real_precision, ovf>>

NextParse == StringToNumber \/ ParseAgain

SpecParse == InitParse /\ [][NextParse]_vars

(***************************************************************************)
(* The parameter objects real-precision and accept-srfi-169-numbers, with  *)
(* the reader between the calls of their setters.                          *)
(***************************************************************************)
\* LONG_MIN when x is no integer that fits a long
STk_integer_value(n) ==
    IF INTP(n) THEN INT_VAL(n)
    ELSE IF BIGNUMP(n) /\ n.v > LONG_MIN /\ n.v <= LONG_MAX THEN n.v
    ELSE LONG_MIN

real_precision_unchecked(value) ==
    [set |-> TRUE, precision |-> STk_integer_value(value), ret |-> value]

\* set: the assignment to real_precision is reached
real_precision_conv(value) ==
    LET precision == STk_integer_value(value)
    IN  IF precision <= 0 \/ precision > 50
        THEN [set |-> FALSE, precision |-> precision, ret |-> Error("real-precision")]
        ELSE [set |-> TRUE, precision |-> precision, ret |-> value]

srfi_169_on(value) == [use_srfi_169 |-> TRUE, ret |-> MAKE_BOOLEAN(TRUE)]

srfi_169_conv(value) ==
    [use_srfi_169 |-> (value # STk_false), ret |-> MAKE_BOOLEAN(value # STk_false)]

ConfArgs ==
    {IntV(n) : n \in {LONG_MIN, -1, 0, 1, 50, 51, LONG_MAX, LONG_MAX + 1}}
    \cup {STk_false, STk_true, RealV(0, 1, 0)}

ConfLiterals ==
    {<<"1", "_", "0", "0", "0", "_", "0", "0", "0">>, <<"1", "0", "0", "0", "0", "0", "0">>,
     <<"1", "2">>, <<"1", ".", "5">>, <<"#", "e", "1", ".", "2", "_", "5">>, <<"_", "1">>}

\* x, y: the argument and the value of the last call of a parameter object;
\* res: the value of the last call of string->number
InitConf ==
    /\ x = NoValue
    /\ y = NoValue
    /\ op = "init"
    /\ res = NoValue
    /\ input = <<>>
    /\ buf = <<>>
    /\ radix = 10
    /\ use_srfi_169 = TRUE
    /\ real_precision = 15
    /\ ovf \in OvfOutcomes

\* (accept-srfi-169-numbers value)
AcceptSrfi169Numbers ==
    /\ \E value \in ConfArgs :
          /\ x' = value
          /\ use_srfi_169' = srfi_169_conv(value).use_srfi_169
          /\ y' = srfi_169_conv(value).ret
    /\ op' = "accept-srfi-169-numbers"
    /\ UNCHANGED <<res, input, buf, radix, real_precision, ovf>>

\* (real-precision value)
RealPrecision ==
    /\ \E value \in ConfArgs :
          /\ x' = value
          /\ real_precision' = IF real_precision_conv(value).set
                               THEN real_precision_conv(value).precision
                               ELSE real_precision
          /\ y' = real_precision_conv(value).ret
    /\ op' = "real-precision"
    /\ UNCHANGED <<res, input, buf, radix, use_srfi_169, ovf>>

\* (string->number s) on a fresh string
ReadLiteral ==
    /\ \E l \in ConfLiterals :
          /\ input' = CStr(l)
          /\ LET r == string2number(CStr(l), radix)
             IN  res' = r.res /\ buf' = r.b
    /\ op' = "string->number"
    /\ UNCHANGED <<x, y, radix, use_srfi_169, real_precision, ovf>>

NextConf == AcceptSrfi169Numbers \/ RealPrecision \/ ReadLiteral

SpecConf == InitConf /\ [][NextConf]_vars

(***************************************************************************)
(* The primitives with a variable number of arguments, on every sequence   *)
(* of up to MaxArgs arguments.                                             *)
(***************************************************************************)
MaxArgs == 3

ArgPool ==
    {IntV(0), IntV(4), IntV(-6), IntV(B), IntV(B + 1), IntV(-B - 4), IntV(INT_MIN_VAL),
     RatV(1, 2), RealV(0, 3, -1), RealV(0, 1, 1), CplxV(IntV(1), IntV(2)),
     CplxV(IntV(1), IntV(4)), CplxV(RealV(0, 1, 0), RealV(0, 1, 1)),
     double2real(DNaN(0))}

ArgLists == UNION {[1..n -> ArgPool] : n \in 0..MaxArgs}

\* input: the arguments of the call
InitList ==
    /\ x = MAKE_INT(0)
    /\ y = MAKE_INT(0)
    /\ op = "init"
    /\ res = NoValue
    /\ input \in ArgLists
    /\ buf = <<>>
    /\ radix = 10
    /\ use_srfi_169 = TRUE
    /\ real_precision = 15
    /\ ovf \in OvfOutcomes

\* (gcd n1 ...)
GcdOfList == Call("gcd", STk_gcd(input))

\* (lcm n1 ...)
LcmOfList == Call("lcm", STk_lcm(input))

\* (= z1 ...), (< x1 ...), (> x1 ...), (<= x1 ...), (>= x1 ...)
numeq == Call("=", call("compare", "=", input))

numlt == Call("<", call("compare", "<", input))

numgt == Call(">", call("compare", ">", input))

numle == Call("<=", call("compare", "<=", input))

numge == Call(">=", call("compare", ">=", input))

NextList == GcdOfList \/ LcmOfList \/ numeq \/ numlt \/ numgt \/ numle \/ numge

SpecList == InitList /\ [][NextList]_vars

(***************************************************************************)
(* integer-length.                                                         *)
(***************************************************************************)
\* width of the significand of a C float, which is to the double's what 24
\* bits are to 53
FloatBits == MantBits \div 2

\* (float) n for a long n > 0: the nearest float, ties to even
FloatOfLong(n) ==
    LET k    == SizeInBase2(n) - FloatBits
        q    == n \div Pow(2, k)
        r    == n % Pow(2, k)
        half == Pow(2, k - 1)
    IN  IF k <= 0 THEN n
        ELSE IF r > half \/ (r = half /\ q % 2 = 1) THEN (q + 1) * Pow(2, k)
        ELSE q * Pow(2, k)

\* (long) log2(f) for a float f >= 1 whose value is the integer f
LongLog2(f) == SizeInBase2(f) - 1

\* mpz_sizeinbase(z, 2): the number of bits of the absolute value of z
mpz_sizeinbase2(n) == SizeInBase2(n)

integer_length(z) ==
    CASE INTP(z) ->
           IF INT_VAL(z) = -1 \/ INT_VAL(z) = 0 THEN MAKE_INT(0)
           ELSE IF INT_VAL(z) > 0 THEN MAKE_INT(LongLog2(FloatOfLong(INT_VAL(z))) + 1)
           ELSE MAKE_INT(LongLog2(FloatOfLong(Abs(INT_VAL(z) + 1))) + 1)
      [] BIGNUMP(z) -> MAKE_INT(mpz_sizeinbase2(z.v))
      [] OTHER -> Error("bad-integer")

(***************************************************************************)
(* The numeric functions: expt on a base x and an exponent y, the          *)
(* functions of one argument on x.                                         *)
(***************************************************************************)
\* the largest number of bits of an exact power the model computes
MaxPowBits == 30

BasePool ==
    {IntV(n) : n \in {0, 1, -1, 2, -2, 3, -6, B - 1, INT_MIN_VAL, B, -B - 1, 2 * B, -2 * B,
                      4, -4, 9, 16, 25, B + 4, B + 17}}
    \cup {RatV(1, 2), RatV(-3, 2), RatV(2, 3), RatV(B + 1, 2), RatV(-1, B + 1),
          RatV(9, 4), RatV(-1, 4)}
    \cup {div2(IntV(n), IntV(2)) : n \in {5, 7, -5, B + 1, B + 3, -B - 1}}
    \cup {div2(IntV(B + 1), IntV(4)), div2(IntV(B), IntV(1))}
    \cup {RealV(0, 0, 0), RealV(1, 0, 0), RealV(0, 1, 0), RealV(0, 3, -1), RealV(1, 1, 1),
          RealV(0, 9, -2), RealV(0, 1, 3), double2real(DInf(0)), double2real(DInf(1)),
          double2real(DNaN(0))}
    \cup {double2real(DOfInt(n)) : n \in {B - 2, B, -B, B + 8}}
    \cup {CplxV(IntV(1), IntV(2)), CplxV(IntV(0), IntV(1)), CplxV(IntV(3), IntV(4)),
          CplxV(IntV(-6), IntV(8)), CplxV(RatV(3, 2), IntV(2)),
          CplxV(RealV(0, 3, 0), RealV(0, 1, 2))}

ExpPool ==
    {IntV(n) : n \in {INT_MIN_VAL, -3, -2, -1, 0, 1, 2, 3, 5, 6, 15, B - 1, B, -B - 1}}
    \cup {RatV(1, 2), RatV(-1, 2)}
    \cup {RealV(0, 0, 0), RealV(1, 0, 0), RealV(0, 1, -1), RealV(0, 1, 1), RealV(1, 1, 0),
          double2real(DInf(0)), double2real(DNaN(0))}
    \cup {CplxV(IntV(1), IntV(2)), CplxV(IntV(-1), IntV(2)), CplxV(IntV(0), IntV(1)),
          CplxV(RatV(1, 2), IntV(1)), CplxV(RealV(0, 1, 0), RealV(0, 1, 0)),
          CplxV(RealV(0, 0, 0), RealV(0, 1, 0)), CplxV(double2real(DNaN(0)), IntV(1))}

InitFun ==
    /\ x \in BasePool
    /\ y \in ExpPool
    /\ op = "init"
    /\ res = NoValue
    /\ input = <<>>
    /\ buf = <<>>
    /\ radix = 10
    /\ use_srfi_169 = TRUE
    /\ real_precision = 15
    /\ ovf \in OvfOutcomes

\* the number of bits of the largest part of a value
RECURSIVE Bits(_)
Bits(v) ==
    CASE INTP(v) \/ BIGNUMP(v) -> IF Abs(v.v) <= 1 THEN 0 ELSE SizeInBase2(v.v)
      [] RATIONALP(v) -> IF Bits(v.num) > Bits(v.den) THEN Bits(v.num) ELSE Bits(v.den)
      [] REALP(v)     -> IF DIsFinite(REAL_VAL(v))
                         THEN SizeInBase2(DNum(REAL_VAL(v))) + SizeInBase2(DDen(REAL_VAL(v)))
                         ELSE 0
      [] COMPLEXP(v)  -> Bits(v.re) + Bits(v.im) + 1
      [] OTHER        -> 0

\* the calls of expt that need neither pow nor exp and log, and whose power
\* has at most MaxPowBits bits
ExptOperands(b, e) ==
    /\ \/ INTP(e) \/ BIGNUMP(e)
       \/ zerop(b)
       \/ (RATIONALP(e) \/ REALP(e)) /\ zerop(e)
    /\ INTP(e) => Bits(b) * Abs(INT_VAL(e)) <= MaxPowBits

\* (expt x y)
Expt ==
    /\ ExptOperands(x, y)
    /\ \E v \in Outcomes(call("expt", x, y)) : Call("expt", v)

\* (integer-length x)
IntegerLength == Call("integer-length", integer_length(x))

\* (sqrt x), for the x that need neither atan nor cos and sin
Sqrt ==
    /\ ~COMPLEXP(x)
    /\ Call("sqrt", call("sqrt", x, MAKE_INT(0)))

\* (magnitude x)
Magnitude == Call("magnitude", call("magnitude", x, MAKE_INT(0)))

\* (floor x), (ceiling x), (truncate x), (round x)
Floor == \E v \in Outcomes(call("floor", x, MAKE_INT(0))) : Call("floor", v)

Ceiling == \E v \in Outcomes(call("ceiling", x, MAKE_INT(0))) : Call("ceiling", v)

Truncate == \E v \in Outcomes(call("truncate", x, MAKE_INT(0))) : Call("truncate", v)

Round == \E v \in Outcomes(call("round", x, MAKE_INT(0))) : Call("round", v)

\* (inexact->exact x)
InexactToExact == Call("inexact->exact", call("inexact2exact", x, MAKE_INT(0)))

NextFun ==
    \/ Expt \/ IntegerLength \/ Sqrt \/ Magnitude
    \/ Floor \/ Ceiling \/ Truncate \/ Round
    \/ InexactToExact

SpecFun == InitFun /\ [][NextFun]_vars

(***************************************************************************)
(* decode-float on a number x, and encode-float on what decode-float       *)
(* returned or on three arguments of its own.                              *)
(***************************************************************************)
\* the exponent of the smallest subnormal double
MinSubnormalExp == DBL_MIN_EXP - MantBits

FloatPool ==
    {RealV(0, 0, 0), RealV(1, 0, 0), RealV(0, 1, 0), RealV(1, 1, 0), RealV(0, 3, -1),
     RealV(1, 1, 1), RealV(0, 3, -3), RealV(0, 15, 0), RealV(1, 5, 3), RealV(0, 13, 8),
     RealV(0, Pow(2, MantBits) - 1, DBL_MAX_EXP - MantBits),
     RealV(0, 1, DBL_MIN_EXP - 1), RealV(1, 3, DBL_MIN_EXP - 1),
     RealV(0, 1, MinSubnormalExp), RealV(0, 3, MinSubnormalExp),
     RealV(1, 5, MinSubnormalExp), RealV(0, 7, MinSubnormalExp),
     RealV(1, 1, MinSubnormalExp + 1),
     double2real(DInf(0)), double2real(DInf(1)), double2real(DNaN(0))}
    \cup {IntV(0), IntV(1), IntV(-6), IntV(B), RatV(1, 2), RatV(-3, 2)}
    \cup {CplxV(IntV(1), IntV(2)), STk_false}

EncodePool ==
    {<<STk_true, IntV(0), IntV(1)>>, <<STk_true, IntV(0), IntV(-1)>>,
     <<STk_true, IntV(0), IntV(0)>>, <<STk_false, IntV(0), IntV(1)>>,
     <<STk_false, IntV(0), IntV(-1)>>, <<STk_true, RatV(1, 2), IntV(1)>>,
     <<STk_true, IntV(0), RatV(1, 2)>>, <<STk_true, IntV(0), RealV(1, 1, 0)>>,
     <<IntV(8), IntV(-3), IntV(1)>>, <<IntV(3), IntV(2), IntV(-1)>>,
     <<IntV(Pow(2, MantBits)), IntV(0), IntV(1)>>, <<IntV(-1), IntV(0), IntV(1)>>,
     <<RatV(1, 2), IntV(0), IntV(1)>>, <<IntV(1), IntV(MinSubnormalExp - 1), IntV(1)>>,
     <<IntV(1), IntV(DBL_MAX_EXP - MantBits + 1), IntV(1)>>,
     <<IntV(5), IntV(1), RealV(0, 1, 0)>>}

InitFloat ==
    /\ x \in FloatPool
    /\ y = MAKE_INT(0)
    /\ op = "init"
    /\ res = NoValue
    /\ input = <<>>
    /\ buf = <<>>
    /\ radix = 10
    /\ use_srfi_169 = TRUE
    /\ real_precision = 15
    /\ ovf \in OvfOutcomes

\* (decode-float x)
DecodeFloat == Call("decode-float", call("decode-float", x, MAKE_INT(0)))

\* (call-with-values (lambda () (decode-float x)) encode-float): input is
\* the list of the three arguments
EncodeDecoded ==
    /\ op = "decode-float"
    /\ res.t = "values"
    /\ op' = "encode-float"
    /\ input' = res.vals
    /\ res' = call("encode-float", res.vals, MAKE_INT(0))
    /\ UNCHANGED <<x, y, buf, radix, use_srfi_169, real_precision, ovf>>

\* (encode-float significand exponent sign)
EncodeFloat ==
    /\ op = "init"
    /\ \E a \in EncodePool :
          /\ input' = a
          /\ res' = call("encode-float", a, MAKE_INT(0))
    /\ op' = "encode-float-of"
    /\ UNCHANGED <<x, y, buf, radix, use_srfi_169, real_precision, ovf>>

NextFloat == DecodeFloat \/ EncodeDecoded \/ EncodeFloat

SpecFloat == InitFloat /\ [][NextFloat]_vars

(***************************************************************************)
(* Properties.                                                             *)
(***************************************************************************)
IntegerClass(v) == INTP(v) \/ BIGNUMP(v)

\* the integer n in canonical form
Canon(n) ==
    IF INT_MIN_VAL <= n /\ n <= INT_MAX_VAL
    THEN [t |-> "integer", v |-> n]
    ELSE [t |-> "bignum", v |-> n]

\* C1: add, sub and mul of two SmallIntegers return the exact sum, difference
\* and product, as a SmallInteger when it lies in [INT_MIN_VAL, INT_MAX_VAL]
\* and as a BigInteger otherwise; no wrapped result is returned.
C1_FixnumArithExact ==
    (INTP(x) /\ INTP(y)) =>
        /\ op = "add" => res = Canon(x.v + y.v)
        /\ op = "sub" => res = Canon(x.v - y.v)
        /\ op = "mul" => res = Canon(x.v * y.v)

\* a product that overflows the long itself has been escalated to a BigInteger
C1_Witness ==
    /\ op = "mul" /\ INTP(x) /\ INTP(y)
    /\ x.v * y.v > LONG_MAX
    /\ res = [t |-> "bignum", v |-> x.v * y.v]

\* C2: for exact integers a and b # 0, a = b * quotient(a, b) + remainder(a, b),
\* the quotient truncated toward zero, product and sum by the tower's mul and add.
C2_QuotientRemainder ==
    (op = "quotient" /\ IntegerClass(x) /\ IntegerClass(y) /\ y.v # 0) =>
        /\ IntegerClass(res)
        /\ res.v = TDiv(x.v, y.v)
        /\ LET back == add2(mul2(y, res), STk_remainder(x, y))
           IN  IntegerClass(back) /\ back.v = x.v

\* the rationals a result holds: the result itself, or a part of a Complex
Rationals(v) ==
    IF RATIONALP(v) THEN {v}
    ELSE IF COMPLEXP(v) THEN {c \in {v.re, v.im} : RATIONALP(c)}
    ELSE {}

ExactCall == op \in {"add", "sub", "mul", "div", "abs"} /\ isexactp(x) /\ isexactp(y)

C4_NoUnitDenominator ==
    (op \in {"add", "sub", "mul", "div"}) =>
        \A q \in Rationals(res) : q.den.v # 1

\* a BigInteger whose value lies in the SmallInteger range
NonCanonicalBig(v) == BIGNUMP(v) /\ INT_MIN_VAL <= v.v /\ v.v <= INT_MAX_VAL

RECURSIVE HasNonCanonicalBig(_)
HasNonCanonicalBig(v) ==
    CASE BIGNUMP(v)   -> NonCanonicalBig(v)
      [] RATIONALP(v) -> NonCanonicalBig(v.num) \/ NonCanonicalBig(v.den)
      [] COMPLEXP(v)  -> HasNonCanonicalBig(v.re) \/ HasNonCanonicalBig(v.im)
      [] OTHER        -> FALSE

\* C5: no value returned is a BigInteger whose value lies in
\* [INT_MIN_VAL, INT_MAX_VAL], and neither part of a returned Rational is one.
C5_CanonicalIntegers ==
    (op \in {"add", "sub", "mul", "div", "quotient", "remainder", "abs"}) =>
        ~HasNonCanonicalBig(res)

\* C6: no value returned by add, sub, mul or div is a Complex whose imaginary
\* part is zero.
C6_NoZeroImaginary ==
    (op \in {"add", "sub", "mul", "div"}) => ~(COMPLEXP(res) /\ zerop(res.im))

\* an exact zero: the integer 0, or a Complex both parts of which are exact zeros
ExactZero(v) == isexactp(v) /\ zerop(v)

\* the errors that report a zero divisor: "cannot divide ~S by 0" and
\* "cannot make rational with null denominator"
DivisionByZero(v) == v \in {Error("divide-by-zero"), Error("null-denominator")}

\* C7: div on exact operands signals a division-by-zero error if and only if
\* the divisor is an exact zero; div of a Real by 0.0 signals no error and
\* returns a Real, an infinity or a NaN.
C7_DivisionByZero ==
    /\ (op = "div" /\ isexactp(x) /\ isexactp(y)) =>
          (DivisionByZero(res) <=> ExactZero(y))
    /\ (op = "div" /\ REALP(x) /\ REALP(y) /\ DIsZero(REAL_VAL(y))) =>
          /\ REALP(res)
          /\ ~DIsFinite(REAL_VAL(res))
          /\ (DIsZero(REAL_VAL(x)) => DIsNaN(REAL_VAL(res)))

\* numerator and denominator of an exact real number
NumOf(v) == IF RATIONALP(v) THEN v.num.v ELSE v.v

DenOf(v) == IF RATIONALP(v) THEN v.den.v ELSE 1

ReOf(v) == IF COMPLEXP(v) THEN v.re ELSE v

ImOf(v) == IF COMPLEXP(v) THEN v.im ELSE MAKE_INT(0)

FracEqual(a, b) == NumOf(a) * DenOf(b) = NumOf(b) * DenOf(a)

\* two exact numbers with the same value
NumEqual(a, b) == FracEqual(ReOf(a), ReOf(b)) /\ FracEqual(ImOf(a), ImOf(b))

\* a number whose components are numbers of the kind their place asks for
ExactRealShape(v) ==
    \/ IntegerClass(v)
    \/ RATIONALP(v) /\ IntegerClass(v.num) /\ IntegerClass(v.den)

RealShape(v) == REALP(v) \/ ExactRealShape(v)

WellFormedNumber(v) ==
    \/ RealShape(v)
    \/ COMPLEXP(v) /\ RealShape(v.re) /\ RealShape(v.im)

\* what the parser makes of the characters number->string has returned
ReadBack == pcall("STk_Cstr2number", CStr(res.chars), radix).res

\* C8: for every exact integer and Rational x and every radix r in
\* {2, 8, 10, 16}, STk_Cstr2number(number2Cstr(x, r), r) is exact and
\* numerically equal to x; so it is for every exact Complex x with r = 10.
C8_RoundTrip ==
    (op = "number->string" /\ radix \in Radixes /\ isexactp(x) /\ (COMPLEXP(x) => radix = 10)) =>
        /\ res.t = "string"
        /\ WellFormedNumber(ReadBack)
        /\ isexactp(ReadBack)
        /\ NumEqual(ReadBack, x)

\* INT_MIN_VAL has been printed in radix 2 and read back
C8_Witness ==
    /\ op = "number->string" /\ x = MAKE_INT(INT_MIN_VAL) /\ radix = 2
    /\ res.t = "string" /\ res.chars[1] = "-" /\ Len(res.chars) = WordBits - TagBits + 1
    /\ ReadBack = x

\* C9: for every input string and every radix in {2, 8, 10, 16} the parser
\* returns a well-formed number or #f; it never signals an error.
C9_ParserTotal ==
    op = "string->number" => (res = STk_false \/ WellFormedNumber(res))

\* the value of a run of decimal digits, 0 for the empty run
RECURSIVE DecValue(_)
DecValue(s) ==
    IF s = <<>> THEN 0
    ELSE 10 * DecValue(SubSeq(s, 1, Len(s) - 1))
         + (CHOOSE k \in 0..9 : DecDigits[k + 1] = s[Len(s)])

\* the exact number n / d in canonical form, d > 0
CanonRatio(n, d) ==
    IF (d \div Gcd(n, d)) = 1 THEN Canon(n \div Gcd(n, d))
    ELSE [t |-> "rational", num |-> Canon(n \div Gcd(n, d)), den |-> Canon(d \div Gcd(n, d))]

\* sign * (I + F / 10^len(F)) * 10^E for the sign s, the integer digits i, the
\* fraction f (its point included) and the exponent e (its marker included)
ExactDecimal(s, i, f, e) ==
    LET F    == IF f = <<>> THEN <<>> ELSE Tail(f)
        sg   == IF s = <<"-">> THEN -1 ELSE 1
        E    == IF e = <<>> THEN 0
                ELSE IF e[2] = "-" THEN -DecValue(SubSeq(e, 3, Len(e)))
                ELSE DecValue(Tail(e))
        n    == sg * (DecValue(i) * Pow(10, Len(F)) + DecValue(F))
        d    == Pow(10, Len(F))
    IN  IF E >= 0 THEN CanonRatio(n * Pow(10, E), d) ELSE CanonRatio(n, d * Pow(10, -E))

\* C10: a radix-10 literal with prefix #e that has a fraction and/or an
\* exponent is read as the exact sign * (I + F / 10^len(F)) * 10^E in
\* canonical form, the sign applying to the whole magnitude.
C10_ExactDecimal ==
    \A s \in LitSigns, i \in {<<>>, <<"1">>, <<"1", "2">>, <<"4", "0">>},
       f \in {<<>>, <<".", "5">>, <<".", "2", "5">>},
       e \in {<<>>, <<"e", "1">>, <<"e", "-", "1">>} :
        (/\ op = "string->number" /\ radix = 10
         /\ input = CStr(<<"#", "e">> \o s \o i \o f \o e)
         /\ (f # <<>> \/ e # <<>>)
         /\ (i # <<>> \/ f # <<>>))
        => res = ExactDecimal(s, i, f, e)

\* the characters of the C string in the buffer b, from its start to the first NUL
Chars(b) == StrFrom(b, 1)

HasUnderscore(s) == \E k \in 1..Len(s) : s[k] = "_"

\* s with every underscore taken out
RECURSIVE StripUnderscores(_)
StripUnderscores(s) ==
    IF s = <<>> THEN <<>>
    ELSE IF Head(s) = "_" THEN StripUnderscores(Tail(s))
    ELSE <<Head(s)>> \o StripUnderscores(Tail(s))

\* c is one of the digits of the radix
RadixDigit(c, base) ==
    \E u \in 0..(base - 1) :
        c = (IF u < 10 THEN DecDigits[u + 1] ELSE LowerHex[u - 9])
        \/ (u >= 10 /\ c = UpperHex[u - 9])

\* every underscore of s stands between two digits of the radix
UnderscoresWellPlaced(s, base) ==
    \A k \in 1..Len(s) :
        s[k] = "_" => /\ 1 < k /\ k < Len(s)
                      /\ RadixDigit(s[k - 1], base)
                      /\ RadixDigit(s[k + 1], base)

\* the radix in force after the prefixes of the literal in the buffer b
LiteralRadix(b) == read_prefixes(b, radix).base

\* C11: with the toggle enabled, a literal with an ill-placed underscore is
\* read as #f, and a literal whose underscores all stand between two digits of
\* the radix is read as the same literal without its underscores is.
C11_Underscores ==
    (op = "string->number" /\ use_srfi_169 /\ HasUnderscore(Chars(input))) =>
        IF UnderscoresWellPlaced(Chars(input), LiteralRadix(input))
        THEN res = string2number(CStr(StripUnderscores(Chars(input))), radix).res
        ELSE res = STk_false

(***************************************************************************)
(* accept-srfi-169-numbers.                                                *)
(***************************************************************************)
MillionLiteral == <<"1", "_", "0", "0", "0", "_", "0", "0", "0">>

\* the toggle after a step: set by a call of the setter, kept by any other
ToggleFollowsArgument ==
    IF op' = "accept-srfi-169-numbers"
    THEN use_srfi_169' = (x' # STk_false) /\ y' = MAKE_BOOLEAN(use_srfi_169')
    ELSE use_srfi_169' = use_srfi_169

MillionRead ==
    (op = "string->number" /\ Chars(input) = MillionLiteral) =>
        IF use_srfi_169 THEN IntegerClass(res) /\ res.v = 1000000 ELSE res = STk_false

\* a literal without an underscore that is read once more, whatever calls of
\* the setter lie between the two readings, is read as the same value
SameReading ==
    (op' = "string->number" /\ input' = input /\ ~HasUnderscore(Chars(input))) => res' = res

\* C12: the toggle is enabled at first and is, after every call of its
\* setter, true iff the last argument was not #f, the setter returning the
\* new boolean; "1_000_000" is read as the exact 1000000 when the toggle is
\* enabled and as #f when it is disabled; the reading of a literal without
\* an underscore does not depend on the toggle.
C12_Srfi169Toggle ==
    /\ use_srfi_169 = TRUE
    /\ []MillionRead
    /\ [][ToggleFollowsArgument /\ SameReading]_vars

C12_Witness ==
    /\ op = "string->number"
    /\ Chars(input) = MillionLiteral
    /\ ~use_srfi_169
    /\ x = STk_false
    /\ y = STk_false
    /\ res = STk_false

(***************************************************************************)
(* real-precision.                                                         *)
(***************************************************************************)
ValidPrecision(v) == IntegerClass(v) /\ 1 <= v.v /\ v.v <= 50

\* the cell after a step: set by a call of the setter with a valid argument
PrecisionFollowsArgument ==
    IF op' = "real-precision" /\ ValidPrecision(x')
    THEN real_precision' = x'.v /\ ~IsErr(y')
    ELSE /\ real_precision' = real_precision
         /\ op' = "real-precision" => IsErr(y')

\* C14: the precision cell holds 15 at first and always an integer of 1..50;
\* the setter called with an integer p of 1..50 sets the cell to p, and
\* called with anything else (0, a negative integer, an integer above 50, a
\* value that is no machine integer) it signals an error and leaves the cell
\* as it was.
C14_RealPrecision ==
    /\ real_precision = 15
    /\ [](real_precision \in 1..50)
    /\ [][PrecisionFollowsArgument]_vars

C14_Witness ==
    /\ op = "real-precision"
    /\ x = IntV(51)
    /\ IsErr(y)
    /\ real_precision = 50

(***************************************************************************)
(* number->string in the radixes other than 10.                            *)
(***************************************************************************)
\* C13: in the radixes 2, 8 and 16 number->string returns a string for an
\* integer and for a Rational only and signals an error for every Real and
\* every Complex, with exact or inexact parts; in a radix outside 2, 8, 10
\* and 16 it signals the incorrect-radix error for every value.
C13_RadixErrors ==
    op = "number->string" =>
        IF radix \notin Radixes THEN res = Error("incorrect-radix")
        ELSE IF radix = 10 THEN TRUE
        ELSE IF IntegerClass(x) \/ RATIONALP(x) THEN res.t = "string"
        ELSE IsErr(res)

(***************************************************************************)
(* The general conversion routine.                                         *)
(***************************************************************************)
TagOrder == <<"integer", "bignum", "rational", "real", "complex">>

Rank(v) == CHOOSE k \in 1..Len(TagOrder) : TagOrder[k] = TYPEOF(v)

HigherTag(a, b) == IF Rank(a) >= Rank(b) THEN TYPEOF(a) ELSE TYPEOF(b)

RECURSIVE OddPart(_)
OddPart(n) == IF n = 0 THEN 0 ELSE IF n % 2 = 0 THEN OddPart(n \div 2) ELSE Abs(n)

\* the fraction num / den, in lowest terms, is the value of a double
IsDouble(num, den) ==
    /\ OddPart(den) = 1
    /\ OddPart(num) < Pow(2, MantBits)

\* the Real new has the value of the integer or Rational old
RealEqual(new, old) ==
    /\ DIsFinite(REAL_VAL(new))
    /\ DNum(REAL_VAL(new)) * DenOf(old) = NumOf(old) * DDen(REAL_VAL(new))

\* new has the higher tag and the numeric value of old
SameValue(new, old) ==
    CASE COMPLEXP(new) -> new.re = old /\ new.im = MAKE_INT(0)
      [] REALP(new)    -> RealEqual(new, old)
      [] OTHER         -> FracEqual(new, old)

\* as SameValue, a Real having the value of old when that value is a double
\* and being a finite double of the same sign when it is not
ConvertedValue(new, old) ==
    IF REALP(new) /\ ~IsDouble(NumOf(old), DenOf(old))
    THEN /\ DIsFinite(REAL_VAL(new))
         /\ Sgn(DNum(REAL_VAL(new))) = Sgn(NumOf(old))
    ELSE SameValue(new, old)

\* the tag convert returns and what it does to the operand of the lower tag
Coerced(value(_, _)) ==
    /\ res.tc = HigherTag(x, y)
    /\ TYPEOF(res.x) = res.tc /\ TYPEOF(res.y) = res.tc
    /\ Rank(x) >= Rank(y) => res.x = x
    /\ Rank(y) >= Rank(x) => res.y = y
    /\ Rank(x) < Rank(y) => value(res.x, x)
    /\ Rank(y) < Rank(x) => value(res.y, y)

C16_Modulo ==
    (op = "modulo" /\ IntegerClass(x) /\ IntegerClass(y) /\ y.v # 0) =>
        /\ IntegerClass(res)
        /\ res.v = 0 \/ Sgn(res.v) = Sgn(y.v)
        /\ Abs(res.v) < Abs(y.v)
        /\ (x.v - res.v) % Abs(y.v) = 0
        /\ IntegerClass(STk_remainder(x, y))
        /\ res.v = IF STk_remainder(x, y).v = 0 \/ Sgn(x.v) = Sgn(y.v)
                   THEN STk_remainder(x, y).v
                   ELSE STk_remainder(x, y).v + y.v

\* modulo(-6, 4) = 2, remainder(-6, 4) = -2
C16_Witness ==
    /\ op = "modulo" /\ x = MAKE_INT(-6) /\ y = MAKE_INT(4)
    /\ res = MAKE_INT(2) /\ STk_remainder(x, y) = MAKE_INT(-2)

(***************************************************************************)
(* The errors of quotient, remainder and modulo.                           *)
(***************************************************************************)
IntegerDivision == op \in {"quotient", "remainder", "modulo"}

\* a Real that is integral-valued: finite and without a fraction
Integral(v) == REALP(v) => (DIsFinite(REAL_VAL(v)) /\ REAL_VAL(v).e >= 0)

\* the exact integer an integral operand stands for
IntOf(v) == IF REALP(v) THEN IntV(TDiv(DNum(REAL_VAL(v)), DDen(REAL_VAL(v)))) ELSE v

\* the operands for which the claim requires an error
DivisionRefused ==
    \/ ~(IntegerClass(x) \/ REALP(x))
    \/ ~(IntegerClass(y) \/ REALP(y))
    \/ zerop(y)
    \/ ~Integral(x)
    \/ ~Integral(y)

ExactResult ==
    CASE op = "quotient"  -> STk_quotient(IntOf(x), IntOf(y))
      [] op = "remainder" -> STk_remainder(IntOf(x), IntOf(y))
      [] op = "modulo"    -> STk_modulo(IntOf(x), IntOf(y))

\* C17: quotient, remainder and modulo signal an error when the divisor is
\* zero (0 or 0.0), when an operand is a Rational, a Complex or no number,
\* and when a Real operand is not integral-valued; with integral operands of
\* which one at least is a Real the result is a Real equal to the result on
\* the corresponding exact integers, and with exact operands it is exact.
C17_IntegerDivisionErrors ==
    IntegerDivision =>
        IF DivisionRefused THEN IsErr(res)
        ELSE IF REALP(x) \/ REALP(y) THEN REALP(res) /\ RealEqual(res, ExactResult)
        ELSE IntegerClass(res)

(***************************************************************************)
(* gcd and lcm.                                                            *)
(***************************************************************************)
Args == {input[k] : k \in 1..Len(input)}

ExactIntegers == \A v \in Args : IntegerClass(v)

\* the integers that divide every argument, and those every argument divides
RECURSIVE MathGcd(_, _)
MathGcd(s, k) == IF k > Len(s) THEN 0 ELSE Gcd(Abs(s[k].v), MathGcd(s, k + 1))

RECURSIVE MathLcm(_, _)
MathLcm(s, k) ==
    IF k > Len(s) THEN 1
    ELSE IF s[k].v = 0 \/ MathLcm(s, k + 1) = 0 THEN 0
    ELSE (Abs(s[k].v) \div Gcd(Abs(s[k].v), MathLcm(s, k + 1))) * MathLcm(s, k + 1)

\* C18: for every list of exact integers, zeros, negatives, SmallIntegers
\* and BigIntegers included, gcd and lcm return without an error the
\* non-negative greatest common divisor and least common multiple of the
\* arguments; gcd() = 0, lcm() = 1, gcd(32, -36) = 4, lcm(32, -36) = 288.
C18_GcdLcm ==
    ExactIntegers =>
        /\ op = "gcd" => (IntegerClass(res) /\ res.v = MathGcd(input, 1))
        /\ op = "lcm" => (IntegerClass(res) /\ res.v = MathLcm(input, 1))

\* an argument that is a number and no integer: a Rational, a Real with a
\* fraction, a Complex
NotIntegerValued(v) == NUMBERP(v) /\ ~STk_integerp(v)

\* C19: gcd and lcm signal the not-an-integer error whenever an argument, in
\* any position and for any number of arguments, one included, is a number
\* that is not integer-valued; no value computed from it is returned.
C19_GcdLcmNotInteger ==
    (op \in {"gcd", "lcm"} /\ \E v \in Args : NotIntegerValued(v)) =>
        res = Error("not-an-integer")

(***************************************************************************)
(* Comparisons with Complex arguments.                                     *)
(***************************************************************************)
\* the value of a real number as a fraction
ValNum(v) == IF REALP(v) THEN DNum(REAL_VAL(v)) ELSE NumOf(v)

ValDen(v) == IF REALP(v) THEN DDen(REAL_VAL(v)) ELSE DenOf(v)

ValEqual(a, b) == ValNum(a) * ValDen(b) = ValNum(b) * ValDen(a)

PartsEqual(a, b) == ValEqual(ReOf(a), ReOf(b)) /\ ValEqual(ImOf(a), ImOf(b))

NonReal(v) == COMPLEXP(v) /\ ~zerop(v.im)

\* C20: each of <, >, <= and >= signals an error whenever an argument, in
\* any position, is a Complex that is not real, whatever the others are;
\* = accepts Complex arguments and returns true iff the real parts and the
\* imaginary parts of the arguments are pairwise equal.
C20_CompareComplex ==
    (\E v \in Args : NonReal(v)) =>
        /\ op \in {"<", ">", "<=", ">="} => IsErr(res)
        /\ op = "=" =>
              res = MAKE_BOOLEAN(\A k \in 1..(Len(input) - 1) : PartsEqual(input[k], input[k + 1]))

(***************************************************************************)
(* Comparisons with NaN.                                                   *)
(***************************************************************************)
IsNaN(v) == REALP(v) /\ DIsNaN(REAL_VAL(v))

\* C21: NaN compares unequal to everything, itself included: for two Real
\* operands of which one is NaN, (= x y) is false, and so are (< x y),
\* (> x y), (<= x y) and (>= x y).
C21_NaNUnordered ==
    (/\ op \in {"=", "<", ">", "<=", ">="}
     /\ Len(input) = 2
     /\ REALP(input[1]) /\ REALP(input[2])
     /\ (IsNaN(input[1]) \/ IsNaN(input[2])))
        => res = STk_false

(***************************************************************************)
(* expt with an exact base and a SmallInteger exponent.                    *)
(***************************************************************************)
ExactClass(v) == INTP(v) \/ BIGNUMP(v) \/ RATIONALP(v)

\* the exact number n/d in canonical form, n/d in lowest terms and d > 0
ExactFraction(n, d) == IF d = 1 THEN IntV(n) ELSE Cmake_rational(IntV(n), IntV(d))

\* x^e and 1/x^e for an exact x and e >= 0
ExactPower(v, e) == ExactFraction(Pow(NumOf(v), e), Pow(DenOf(v), e))

ExactReciprocalPower(v, e) ==
    IF Pow(NumOf(v), e) < 0 THEN ExactFraction(-Pow(DenOf(v), e), -Pow(NumOf(v), e))
    ELSE ExactFraction(Pow(DenOf(v), e), Pow(NumOf(v), e))

\* C22: for an exact base x and a SmallInteger exponent y >= 0, expt(x, y) is
\* the exact x^y in canonical form; for y < 0 and x # 0 it is the exact
\* reciprocal 1 / x^(-y); for y < 0 and x = 0 an error is signalled.
C22_ExactExpt ==
    (op = "expt" /\ ExactClass(x) /\ INTP(y)) =>
        /\ INT_VAL(y) >= 0 => res = ExactPower(x, INT_VAL(y))
        /\ (INT_VAL(y) < 0 /\ ~zerop(x)) => res = ExactReciprocalPower(x, -INT_VAL(y))
        /\ (INT_VAL(y) < 0 /\ zerop(x)) => IsErr(res)

(***************************************************************************)
(* expt with a zero base.                                                  *)
(***************************************************************************)
ZeroLike(z) == IF isexactp(z) THEN MAKE_INT(0) ELSE double2real(DZero(0))

OneLike(z) == IF isexactp(z) THEN MAKE_INT(1) ELSE double2real(DNorm(0, 1, 0))

SameZero(v, z) == zerop(v) /\ ~COMPLEXP(v) /\ isexactp(v) = isexactp(z)

C24_ZeroToZero ==
    (op = "expt" /\ zerop(x) /\ zerop(y)) => res = OneLike(x)

(***************************************************************************)
(* integer-length.                                                         *)
(***************************************************************************)
\* the number of bits of n >= 0, none for 0
BitLength(n) == IF n = 0 THEN 0 ELSE SizeInBase2(n)

\* C26: for every exact integer n, integer-length(n) is the bit length of n
\* when n >= 0 and the bit length of -n - 1 when n < 0, for SmallIntegers and
\* BigIntegers alike.
C26_IntegerLength ==
    (op = "integer-length" /\ IntegerClass(x)) =>
        res = MAKE_INT(IF x.v >= 0 THEN BitLength(x.v) ELSE BitLength(-x.v - 1))

(***************************************************************************)
(* sqrt and magnitude of perfect squares.                                  *)
(***************************************************************************)
PerfectSquare(n) == n >= 0 /\ ISqrt(n) * ISqrt(n) = n

\* a^2 + b^2 for an exact Complex a+bi with integer parts
SquaredMagnitude(z) == z.re.v * z.re.v + z.im.v * z.im.v

\* C25: for every non-negative exact integer n that is a perfect square,
\* SmallInteger or BigInteger, sqrt(n) is the exact integer r >= 0 with
\* r * r = n; the magnitude of an exact Complex a+bi whose a^2 + b^2 is a
\* perfect square is that exact root.
C25_ExactSqrt ==
    /\ (op = "sqrt" /\ IntegerClass(x) /\ PerfectSquare(x.v)) => res = IntV(ISqrt(x.v))
    /\ (op = "magnitude" /\ COMPLEXP(x) /\ IntegerClass(x.re) /\ IntegerClass(x.im)
          /\ PerfectSquare(SquaredMagnitude(x)))
         => res = IntV(ISqrt(SquaredMagnitude(x)))

(***************************************************************************)
(* floor, ceiling, truncate and round of a Rational.                       *)
(***************************************************************************)
\* the greatest integer <= n/d, for d > 0
FloorOf(n, d) == n \div d

CeilingOf(n, d) == -((-n) \div d)

\* the integer nearest to n/d, the even one of the two when n/d is half-way
RoundOf(n, d) ==
    IF 2 * (n - FloorOf(n, d) * d) < d THEN FloorOf(n, d)
    ELSE IF 2 * (n - FloorOf(n, d) * d) > d THEN FloorOf(n, d) + 1
    ELSE IF FloorOf(n, d) % 2 = 0 THEN FloorOf(n, d) ELSE FloorOf(n, d) + 1

\* C27: for every Rational x the operations return, floor(x) is the greatest
\* integer <= x, ceiling(x) the least integer >= x, truncate(x) the integer
\* part of x, round(x) the nearest integer with ties to even; all four are
\* exact integers.
C27_RationalRounding ==
    RATIONALP(x) =>
        /\ op = "floor"    => res = IntV(FloorOf(x.num.v, x.den.v))
        /\ op = "ceiling"  => res = IntV(CeilingOf(x.num.v, x.den.v))
        /\ op = "truncate" => res = IntV(TDiv(x.num.v, x.den.v))
        /\ op = "round"    => res = IntV(RoundOf(x.num.v, x.den.v))

(***************************************************************************)
(* inexact->exact of an integral Real.                                     *)
(***************************************************************************)
IntegralReal(v) == REALP(v) /\ DIsFinite(REAL_VAL(v)) /\ DDen(REAL_VAL(v)) = 1

\* C28: for every finite integral-valued Real x, inexact->exact(x) is the
\* exact integer equal to x, a SmallInteger when x lies in
\* [INT_MIN_VAL, INT_MAX_VAL] and a BigInteger otherwise, at the boundaries
\* of the SmallInteger range too; for an infinity or a NaN an error is
\* signalled.
C28_InexactToExact ==
    op = "inexact->exact" =>
        /\ IntegralReal(x) => res = IntV(DNum(REAL_VAL(x)))
        /\ (REALP(x) /\ ~DIsFinite(REAL_VAL(x))) => IsErr(res)

(***************************************************************************)
(* decode-float and encode-float.                                          *)
(***************************************************************************)
FiniteReal(v) == REALP(v) /\ DIsFinite(REAL_VAL(v))

\* sign * significand * 2^exponent = d, as an equation between integers
Decodes(t, d) ==
    /\ INTP(t[1]) /\ INTP(t[2]) /\ INTP(t[3])
    /\ INT_VAL(t[3]) \in {-1, 1}
    /\ (INT_VAL(t[3]) = -1) = (d.s = 1)
    /\ INT_VAL(t[1]) >= 0
    /\ IF d.m = 0 THEN INT_VAL(t[1]) = 0
       ELSE /\ INT_VAL(t[2]) <= d.e
            /\ INT_VAL(t[1]) = d.m * Pow(2, d.e - INT_VAL(t[2]))

\* C29: for every finite double x, decode-float(x) returns exact integers
\* (significand, exponent, sign) with sign -1 or +1 and
\* x = sign * significand * 2^exponent, and encode-float of the three
\* returns the Real x, sign and bits; encode-float of the significand #t
\* returns +inf.0 for a sign >= 0 and -inf.0 otherwise, and of #f a NaN.
C29_DecodeEncode ==
    /\ (op = "decode-float" /\ FiniteReal(x)) =>
          res.t = "values" /\ Decodes(res.vals, REAL_VAL(x))
    /\ (op = "encode-float" /\ FiniteReal(x)) => res = x
    /\ (op = "encode-float-of" /\ input[1] = STk_true /\ INTP(input[2]) /\ INTP(input[3])) =>
          res = double2real(DInf(IF INT_VAL(input[3]) >= 0 THEN 0 ELSE 1))
    /\ (op = "encode-float-of" /\ input[1] = STk_false /\ INTP(input[2]) /\ INTP(input[3])) =>
          REALP(res) /\ DIsNaN(REAL_VAL(res))

(***************************************************************************)
(* What a parse leaves behind.                                             *)
(***************************************************************************)
\* C30: when string->number returns, with a number or with #f, the
\* character buffer holds exactly the characters it held at the call, and
\* the print precision and the underscore toggle are the ones of before.
C30_ParseLeavesInput ==
    op = "string->number" =>
        /\ buf = input
        /\ use_srfi_169 = TRUE
        /\ real_precision = 15

====
